---- MODULE Spec2Model ----
(***************************************************************************)
(* poidh-miniapp: the bounty detail page, the claim detail page and the    *)
(* create page, together with the hooks that project the bounty contract   *)
(* into the values those pages render from, and the write path             *)
(* (useWriteContract / useWaitForTransactionReceipt) the handlers drive.   *)
(* The bounty contract itself is external to the repository; it appears    *)
(* as the environment the hooks read from and the handlers write to.       *)
(***************************************************************************)
EXTENDS Integers, Sequences, FiniteSets, TLC

(* ---------------------------------------------------------------------- *)
(* BountyState (src/lib/contracts.ts)                                     *)
(* ---------------------------------------------------------------------- *)
OPEN == 0
VOTING == 1
CLOSED == 2
CANCELLED == 3


(* ---------------------------------------------------------------------- *)
(* Bounds of the model                                                    *)
(* ---------------------------------------------------------------------- *)
\* voting rounds the contract may open
MaxRound == 2
\* the clock runs from 0 to MaxTime seconds
MaxTime == 2
\* the contract's voting window, in seconds
VotingWindow == 1
\* pieces a reference string is made of
MaxPieces == 3
\* clicks on write buttons of one page
MaxClicks == 2
\* claims of one bounty
MaxClaims == 2
\* events of the bounties' own kinds that one run collects
MaxEvents == 1
\* block timestamps
MaxStamp == 2
\* the limits tried besides the default
MaxLimit == 2
\* items whose metadata one listing resolves
MaxItems == 2
\* bounties a listing reads at once
MaxBounties == 2
\* reads of one batch that fail
MaxFailed == 3
\* runs of fetchActivities the effect starts
MaxRuns == 2
\* documents the pinning service is sent
MaxPins == 2
\* GET requests the proxy serves at the same time
MaxRequests == 2
\* versions of a document the gateways may serve for one cid
MaxVariants == 2
\* the server clock runs from 0 to MaxTicks steps of TimeStep milliseconds
MaxTicks == 2
TimeStep == 150 * 1000

\* claim ids that exist on the viewed bounty; the claim page shows claim 0
ClaimIds == {0, 1}

(* ---------------------------------------------------------------------- *)
(* Fixture data (src/lib/mockData.ts); amounts in units of 0.01 ETH       *)
(* ---------------------------------------------------------------------- *)
DEMO_USER_ADDRESS == "alice"

MOCK_BOUNTIES ==
  << [issuer |-> "alice",   state |-> OPEN,      joinable |-> TRUE,  totalStaked |-> 50],
     [issuer |-> "bob",     state |-> VOTING,    joinable |-> TRUE,  totalStaked |-> 220],
     [issuer |-> "charlie", state |-> OPEN,      joinable |-> TRUE,  totalStaked |-> 75],
     [issuer |-> "diana",   state |-> CLOSED,    joinable |-> FALSE, totalStaked |-> 100],
     [issuer |-> "evan",    state |-> OPEN,      joinable |-> TRUE,  totalStaked |-> 350],
     [issuer |-> "fiona",   state |-> OPEN,      joinable |-> TRUE,  totalStaked |-> 25],
     [issuer |-> "george",  state |-> CANCELLED, joinable |-> TRUE,  totalStaked |-> 50],
     [issuer |-> "hannah",  state |-> OPEN,      joinable |-> FALSE, totalStaked |-> 500],
     [issuer |-> "alice",   state |-> OPEN,      joinable |-> TRUE,  totalStaked |-> 15],
     [issuer |-> "bob",     state |-> VOTING,    joinable |-> TRUE,  totalStaked |-> 80],
     [issuer |-> "charlie", state |-> CLOSED,    joinable |-> TRUE,  totalStaked |-> 120],
     [issuer |-> "diana",   state |-> OPEN,      joinable |-> TRUE,  totalStaked |-> 42] >>

\* MOCK_FUNDERS[bounty]: the funders recorded for the bounty
MOCK_FUNDERS ==
  << { <<"alice", 30>>, <<"hannah", 10>>, <<"evan", 10>> },
     { <<"bob", 100>>, <<"charlie", 50>>, <<"diana", 35>>, <<"fiona", 25>>, <<"alice", 10>> },
     { <<"charlie", 50>>, <<"alice", 25>> },
     { },
     { <<"evan", 200>>, <<"charlie", 50>>, <<"bob", 50>>, <<"hannah", 30>>, <<"diana", 20>> },
     { <<"fiona", 25>> },
     { <<"george", 30>>, <<"alice", 20>> },
     { <<"hannah", 200>>, <<"alice", 100>>, <<"bob", 75>>, <<"charlie", 50>>,
       <<"diana", 40>>, <<"evan", 20>>, <<"fiona", 15>> },
     { <<"alice", 15>> },
     { <<"bob", 50>>, <<"george", 20>>, <<"fiona", 10>> },
     { },
     { <<"diana", 20>>, <<"alice", 8>>, <<"bob", 5>>, <<"charlie", 4>>,
       <<"evan", 3>>, <<"george", 2>> } >>

\* MOCK_CLAIMS[bounty].length
MOCK_CLAIMS_LENGTH == << 3, 5, 1, 2, 8, 0, 0, 0, 0, 4, 6, 0 >>

\* the keys of MOCK_USER_VOTES: <<bounty, user>>; the round is no part of the key
MOCK_USER_VOTES == { <<2, "charlie">>, <<2, "diana">>, <<10, "george">> }

\* the fixture addresses a page can be opened on; the last one is no fixture bounty
DemoBountyNums == 1..(Len(MOCK_BOUNTIES) + 1)

VARIABLES
  DEMO_MODE,     \* the module-wide data source flag (mockData.ts)
  page,          \* which page is mounted: "create", "bounty" or "claim"
  bountyNum,     \* demo mode: number of the fixture bounty the page is opened on
  claimId,       \* claim page: the claim shown
  now,           \* Date.now(), in seconds
  chain,         \* the bounty contract as it is on chain (live mode)
  rIssuer,       \* useBounty: issuer read
  rState,        \* useBounty: state read
  rTotalStaked,  \* useBounty: totalStaked read
  rJoinable,     \* useBounty: joinable read
  rClaims,       \* useClaims: claims loaded
  rVote,         \* useVoteState: currentVote read
  rStake,        \* useUserStake: account_Stake read
  rHasVoted,     \* useHasVoted: account_Round_HasVoted read, with the round it was asked for
  walletAddress, \* useAccount().address; "" while no wallet is connected
  form,          \* bounty page: "none", "join" (showJoinForm) or "claim" (showClaimForm)
  joinAmount,    \* bounty page: the join form's amount
  claimName,     \* bounty page: the claim form's text
  title,         \* create page form
  description,   \* create page form
  amount,        \* create page form
  isUploading,   \* create page
  submitPc,      \* create page: where handleSubmit is suspended
  write,         \* useWriteContract + useWaitForTransactionReceipt
  error          \* the page's error state; "" is null

\* the metadata proxy route (GET /api/ipfs/[cid])
VARIABLES
  cache,         \* the route module's Map: cid -> { data, timestamp }
  serverNow,     \* Date.now() on the server, in milliseconds
  reqs,          \* the GET requests in flight, each with the await it is suspended at
  fetched        \* the documents the gateways have served so far

pageVars == << DEMO_MODE, page, bountyNum, claimId, now, chain, rIssuer, rState,
               rTotalStaked, rJoinable, rClaims, rVote, rStake, rHasVoted,
               walletAddress, form, joinAmount, claimName, title, description,
               amount, isUploading, submitPc, write, error >>

proxyVars == << cache, serverNow, reqs, fetched >>

\* the metadata upload route (POST /api/ipfs/upload)
VARIABLES
  env,           \* process.env: whether PINATA_API_KEY and PINATA_SECRET_KEY are set
  post,          \* the POST request being served, with the await it is suspended at
  pinned         \* how many documents have been sent to the pinning service

uploadVars == << env, post, pinned >>

\* useBounty in live mode, read by read
VARIABLES
  reads,         \* the seven useReadContract results: data undefined, or the value
  metaQuery      \* the bounty-metadata useQuery: "disabled", "loading", "success", "error"

readsVars == << reads, metaQuery >>

\* useActivityFeed
VARIABLES
  feed,          \* the hook's state: activities, isLoading, error; and whether it is mounted
  runs,          \* the fetchActivities runs: the await each is at, its cancelled flag
  started,       \* how many times the effect has started a run
  calls          \* the state setters called so far, with the caller's cancelled flag

feedVars == << feed, runs, started, calls >>

\* useBountiesData
VARIABLES
  addresses,     \* the hook's argument
  data,          \* useReadContracts' data: undefined, or one result per contract read
  bounties       \* the list the hook returns

batchVars == << addresses, data, bounties >>

\* the metadata query of useBounties (and the proof query of useClaims)
VARIABLES
  items,         \* the metadataURI (proofURI) of each listed item
  fetches,       \* each item's callback: "skipped", "pending", "ok" or "null"
  map,           \* queryFn's Map: uri -> "unset", "null" or the document
  queryState,    \* the useQuery: "idle", "loading" or "success"
  fetchCount     \* how many times fetchFromIPFS was called with each uri

listingVars == << items, fetches, map, queryState, fetchCount >>

\* src/lib/ipfs.ts: a reference string and what the helpers make of it
VARIABLES
  ref,           \* the string the helpers are called with
  ipfsOut        \* what fetchFromIPFS, toIPFSUri and getIPFSUrl did with it

ipfsVars == << ref, ipfsOut >>

\* CreateBountyPage.handleSubmit: what the upload resolved with and what was submitted
VARIABLES
  uploaded,      \* the cid the last uploadToIPFS resolved with, << >> before any
  metadataURI    \* args[0] of the last createBounty write, << >> before any

createVars == << uploaded, metadataURI >>

\* the write buttons of a page: the handlers started and the writes submitted
VARIABLES
  onPage,        \* "create", or "detail" for the bounty and claim pages
  connected,     \* useAccount().address is defined
  handlers,      \* each click's handler: "none", "connecting", "uploading", "done"
  txs,           \* each click's write: "none", "pending", "confirming", "mined", "failed"
  current,       \* the click whose write useWriteContract reports, 0 after reset
  uploadingNow   \* isUploading of the create page

clicksVars == << onPage, connected, handlers, txs, current, uploadingNow >>

\* useUserClaimedBounties: its arguments, the claims on chain and its batch of reads
VARIABLES
  givenBounties,        \* the bounties argument: << [address, claimsCount], ... >>
  givenUser,            \* the userAddress argument, "" for undefined
  chainClaims,          \* the claimant of each claim of each bounty on chain
  claimsData,           \* data of useReadContracts: undefined, or one result per contract
  userClaimedBounties   \* the set the hook returns

claimedVars == << givenBounties, givenUser, chainClaims, claimsData, userClaimedBounties >>

\* useActivityFeed(limit): what one fetchActivities run collects and commits
VARIABLES
  hook,          \* the hook's limit and state: activities, isLoading, error (TRUE for set)
  fetchRun,      \* the run that is not cancelled: its await, its loops, its allActivities
  runCount       \* how many times the effect has run

activityVars == << hook, fetchRun, runCount >>

\* the state of the routes and hooks, kept apart from the state of the pages
extVars == << proxyVars, uploadVars, readsVars, feedVars, batchVars, listingVars,
              ipfsVars, createVars, clicksVars, claimedVars, activityVars >>

\* what each route or hook leaves alone
exceptProxy == << pageVars, uploadVars, readsVars, feedVars, batchVars, listingVars,
                  ipfsVars, createVars, clicksVars, claimedVars, activityVars >>
exceptUpload == << pageVars, proxyVars, readsVars, feedVars, batchVars, listingVars,
                   ipfsVars, createVars, clicksVars, claimedVars, activityVars >>
exceptReads == << pageVars, proxyVars, uploadVars, feedVars, batchVars, listingVars,
                  ipfsVars, createVars, clicksVars, claimedVars, activityVars >>
exceptBatch == << pageVars, proxyVars, uploadVars, readsVars, feedVars, listingVars,
                  ipfsVars, createVars, clicksVars, claimedVars, activityVars >>
exceptFeed == << pageVars, proxyVars, uploadVars, readsVars, batchVars, listingVars,
                 ipfsVars, createVars, clicksVars, claimedVars, activityVars >>
exceptListing == << pageVars, proxyVars, uploadVars, readsVars, feedVars, batchVars,
                    ipfsVars, createVars, clicksVars, claimedVars, activityVars >>
exceptIpfs == << pageVars, proxyVars, uploadVars, readsVars, feedVars, batchVars,
                 listingVars, createVars, clicksVars, claimedVars, activityVars >>
exceptCreate == << pageVars, proxyVars, uploadVars, readsVars, feedVars, batchVars,
                   listingVars, ipfsVars, clicksVars, claimedVars, activityVars >>
exceptClicks == << pageVars, proxyVars, uploadVars, readsVars, feedVars, batchVars,
                   listingVars, ipfsVars, createVars, claimedVars, activityVars >>
exceptClaimed == << pageVars, proxyVars, uploadVars, readsVars, feedVars, batchVars,
                    listingVars, ipfsVars, createVars, clicksVars, activityVars >>
exceptActivity == << pageVars, proxyVars, uploadVars, readsVars, feedVars, batchVars,
                     listingVars, ipfsVars, createVars, clicksVars, claimedVars >>

vars == << pageVars, extVars >>

(* ---------------------------------------------------------------------- *)
(* The metadata proxy: its constants and its state before any request     *)
(* ---------------------------------------------------------------------- *)
IPFS_GATEWAYS ==
  << "https://gateway.pinata.cloud/ipfs",
     "https://ipfs.io/ipfs",
     "https://cloudflare-ipfs.com/ipfs" >>

CACHE_TTL == 5 * 60 * 1000

\* the cids a request can carry; "" is the missing parameter
Cids == {"QmA", "QmB"}
CidParams == Cids \cup {""}

\* a JSON document pinned under a cid, as one gateway serves it
Docs(cid) == { [cid |-> cid, v |-> v] : v \in 1..MaxVariants }
NoDoc == [cid |-> "", v |-> 0]

\* cache.get(cid) === undefined
NoEntry == [data |-> NoDoc, timestamp |-> 0 - 1]

RequestIds == 1..MaxRequests

\* a request slot no request occupies
NoRequest ==
  [pc |-> "none", cid |-> "", contacted |-> << >>, outcomes |-> << >>,
   status |-> 0, body |-> NoDoc, error |-> ""]

ProxyIdle ==
  /\ cache = [c \in Cids |-> NoEntry]
  /\ serverNow = 0
  /\ reqs = [r \in RequestIds |-> NoRequest]
  /\ fetched = {}

(* ---------------------------------------------------------------------- *)
(* The metadata upload: its state before any request                      *)
(* ---------------------------------------------------------------------- *)
\* a request body: no JSON at all, the JSON value null, or an object whose title
\* and description are each absent, empty, white space or a text
Fields == {"absent", "", " ", "T"}
Bodies ==
  { [json |-> "object", title |-> t, description |-> d] : t \in Fields, d \in Fields }
  \cup { [json |-> k, title |-> "absent", description |-> "absent"]
         : k \in {"invalid", "null"} }

NoPost ==
  [pc |-> "none", body |-> [json |-> "null", title |-> "absent", description |-> "absent"],
   sent |-> FALSE, pinata |-> "none", status |-> 0, error |-> "", cid |-> ""]

UploadIdle ==
  /\ env = [PINATA_API_KEY |-> TRUE, PINATA_SECRET_KEY |-> TRUE]
  /\ post = NoPost
  /\ pinned = 0

(* ---------------------------------------------------------------------- *)
(* useBounty, read by read: the bounty on chain and the reads before they *)
(* return                                                                 *)
(* ---------------------------------------------------------------------- *)
ReadNames ==
  {"issuer", "metadataURI", "state", "joinable", "totalStaked", "getClaimsCount",
   "currentVote"}

\* data === undefined
Undefined == [loaded |-> FALSE]

ReadsIdle ==
  /\ reads = [n \in ReadNames |-> Undefined]
  /\ metaQuery = "disabled"

(* ---------------------------------------------------------------------- *)
(* useActivityFeed before it is mounted                                   *)
(* ---------------------------------------------------------------------- *)
RunIds == 1..MaxRuns

NoRun == [pc |-> "none", kind |-> 0, cancelled |-> FALSE]

FeedIdle ==
  /\ feed = [mounted |-> FALSE, activities |-> 0, isLoading |-> FALSE, error |-> 0]
  /\ runs = [r \in RunIds |-> NoRun]
  /\ started = 0
  /\ calls = {}

(* ---------------------------------------------------------------------- *)
(* useBountiesData before it is called                                    *)
(* ---------------------------------------------------------------------- *)
BatchIdle ==
  /\ addresses = << >>
  /\ data = [defined |-> FALSE, results |-> << >>]
  /\ bounties = << >>

(* ---------------------------------------------------------------------- *)
(* The listing's metadata query before it runs                            *)
(* ---------------------------------------------------------------------- *)
\* the URIs an item can carry: none, an ipfs:// URI, a raw cid, a gateway URL with
\* a cid in it, and some other https URL
URIs ==
  {"", "ipfs://QmA", "QmA", "https://gw.example/ipfs/QmB", "https://host.example/b.json"}

ListingIdle ==
  /\ items = << >>
  /\ fetches = << >>
  /\ map = [u \in URIs |-> "unset"]
  /\ queryState = "idle"
  /\ fetchCount = [u \in URIs |-> 0]

(* ---------------------------------------------------------------------- *)
(* src/lib/ipfs.ts before a helper is called                              *)
(* ---------------------------------------------------------------------- *)
\* a string is a sequence of pieces: the two scheme prefixes, the path marker, a run
\* of letters and digits, and a slash
Pieces == {"ipfs://", "https://", "/ipfs/", "Qm", "/"}

NoRequestSent == [kind |-> "none", url |-> << >>]

NothingCalled ==
  [fetched |-> FALSE, raw |-> NoRequestSent, prefixed |-> NoRequestSent,
   uriDone |-> FALSE, uri |-> << >>, uriTwice |-> << >>,
   urlDone |-> FALSE, url |-> << >>, urlOfUri |-> << >>]

IpfsIdle ==
  /\ ref = << >>
  /\ ipfsOut = NothingCalled

CreateIdle ==
  /\ uploaded = << >>
  /\ metadataURI = << >>

ClickIds == 1..MaxClicks

ClicksIdle ==
  /\ onPage = "none"
  /\ connected = FALSE
  /\ handlers = [k \in ClickIds |-> "none"]
  /\ txs = [k \in ClickIds |-> "none"]
  /\ current = 0
  /\ uploadingNow = FALSE

\* bounty addresses as the chain reports them, in mixed case
ClaimedBountyAddrs == {"0xB1", "0xb2"}

NoClaimsData == [defined |-> FALSE, results |-> << >>]

ClaimedIdle ==
  /\ givenBounties = << >>
  /\ givenUser = ""
  /\ chainClaims = [a \in ClaimedBountyAddrs |-> << >>]
  /\ claimsData = NoClaimsData
  /\ userClaimedBounties = {}

NoFetch ==
  [pc |-> "none", how |-> "", bountyAddresses |-> << >>, i |-> 0, kind |-> 0,
   allActivities |-> << >>, swallowed |-> 0]

ActivityIdle ==
  /\ hook = [limit |-> 0, activities |-> << >>, isLoading |-> FALSE, error |-> FALSE]
  /\ fetchRun = NoFetch
  /\ runCount = 0

ExtIdle ==
  /\ ProxyIdle /\ UploadIdle /\ ReadsIdle /\ FeedIdle /\ BatchIdle /\ ListingIdle
  /\ IpfsIdle /\ CreateIdle /\ ClicksIdle /\ ClaimedIdle /\ ActivityIdle

(* ---------------------------------------------------------------------- *)
(* Reads: a read is pending (data undefined) or holds the value returned  *)
(* ---------------------------------------------------------------------- *)
Pending(v) == [loaded |-> FALSE, val |-> v]
Loaded(v) == [loaded |-> TRUE, val |-> v]

\* a currentVote tuple: (claimId, yes, no, deadline, votingRound)
VoteTuple(c, y, n, d, r) ==
  [claimId |-> c, yes |-> y, no |-> n, deadline |-> d, votingRound |-> r]

NoVote == VoteTuple(0, 0, 0, 0, 0)

\* the wallet of the page's user in live mode
WALLET == "0xuser"

(* ---------------------------------------------------------------------- *)
(* Hooks (src/hooks/useClaims.ts)                                         *)
(* ---------------------------------------------------------------------- *)
\* const address = DEMO_MODE ? DEMO_USER_ADDRESS : walletAddress ("" is undefined)
address == IF DEMO_MODE THEN DEMO_USER_ADDRESS ELSE walletAddress

IsFixtureBounty == bountyNum \in 1..Len(MOCK_BOUNTIES)

\* useBounty(address): {bounty, isLoading}; bounty = null is present = FALSE
useBounty ==
  IF DEMO_MODE
  THEN IF IsFixtureBounty
       THEN [present |-> TRUE,
             issuer |-> MOCK_BOUNTIES[bountyNum].issuer,
             state |-> MOCK_BOUNTIES[bountyNum].state,
             joinable |-> MOCK_BOUNTIES[bountyNum].joinable,
             totalStaked |-> MOCK_BOUNTIES[bountyNum].totalStaked,
             isLoading |-> FALSE]
       ELSE [present |-> FALSE, issuer |-> "", state |-> OPEN, joinable |-> FALSE,
             totalStaked |-> 0, isLoading |-> FALSE]
  ELSE [present |-> rIssuer.loaded,
        issuer |-> rIssuer.val,
        state |-> IF rState.loaded THEN rState.val ELSE 0,
        joinable |-> IF rJoinable.loaded THEN rJoinable.val ELSE FALSE,
        totalStaked |-> IF rTotalStaked.loaded THEN rTotalStaked.val ELSE 0,
        isLoading |-> ~rIssuer.loaded \/ ~rState.loaded \/ ~rTotalStaked.loaded]

\* useVoteState(bountyAddress).voteState; null is present = FALSE
useVoteState ==
  IF DEMO_MODE
  THEN IF bountyNum = 2
       THEN [present |-> TRUE, v |-> VoteTuple(0, 150, 35, now + 172800, 1)]
       ELSE IF bountyNum = 10
       THEN [present |-> TRUE, v |-> VoteTuple(1, 50, 20, now + 43200, 1)]
       ELSE [present |-> FALSE, v |-> NoVote]
  ELSE [present |-> rVote.loaded, v |-> rVote.val]

\* MOCK_FUNDERS[bountyAddress].find(f => f.address === userAddress)?.amount || 0n
MockStakeOf(b, user) ==
  IF b \in 1..Len(MOCK_FUNDERS) /\ \E f \in MOCK_FUNDERS[b] : f[1] = user
  THEN (CHOOSE f \in MOCK_FUNDERS[b] : f[1] = user)[2]
  ELSE 0

\* useUserStake(bountyAddress, userAddress).data; undefined is loaded = FALSE
useUserStake ==
  IF DEMO_MODE /\ address # ""
  THEN Loaded(MockStakeOf(bountyNum, address))
  ELSE rStake

\* enabled: !!bountyAddress && !!userAddress && votingRound !== undefined
HasVotedEnabled == address # "" /\ useVoteState.present

\* useHasVoted(bountyAddress, userAddress, voteState?.votingRound).data
\* live: the data of the query whose key holds the round asked for
useHasVoted ==
  IF DEMO_MODE /\ address # ""
  THEN Loaded(<<bountyNum, address>> \in MOCK_USER_VOTES)
  ELSE IF HasVotedEnabled /\ rHasVoted.loaded
          /\ rHasVoted.round = useVoteState.v.votingRound
       THEN Loaded(rHasVoted.val)
       ELSE Pending(FALSE)

\* useClaims(bountyAddress): is claim id among the claims and are they loaded
ClaimsLength ==
  IF DEMO_MODE
  THEN IF IsFixtureBounty THEN MOCK_CLAIMS_LENGTH[bountyNum] ELSE 0
  ELSE IF rClaims THEN Cardinality(ClaimIds) ELSE 0

\* useClaims(bountyAddress).isLoading: the claims and their proofs are on their way.
\* They arrive with the fields of the bounty (ReadBounty)
isLoadingClaims == ~DEMO_MODE /\ ~rClaims

\* the claimants of the claims of the viewed bounty
OTHER_ADDR == "0xother"
CHAIN_CLAIMANTS == {OTHER_ADDR, WALLET}
MOCK_CLAIMANTS ==
  << {"bob", "charlie", "diana"},
     {"alice", "evan", "fiona", "george", "hannah"},
     {"evan"},
     {"alice", "bob"},
     {"alice", "bob", "fiona", "george", "hannah", "charlie", "diana", "evan"},
     {}, {}, {}, {},
     {"alice", "charlie", "diana", "evan"},
     {"alice", "bob", "charlie", "diana", "evan", "fiona"},
     {} >>

\* the claimants of useClaims(bountyAddress).claims
Claimants ==
  IF DEMO_MODE
  THEN IF IsFixtureBounty THEN MOCK_CLAIMANTS[bountyNum] ELSE {}
  ELSE IF rClaims THEN CHAIN_CLAIMANTS ELSE {}

(* ---------------------------------------------------------------------- *)
(* useWriteContract / useWaitForTransactionReceipt                        *)
(* ---------------------------------------------------------------------- *)
Idle == [status |-> "idle", fn |-> "", arg |-> 0]
isWriting == write.status = "pending"
isConfirming == write.status = "confirming"
isSubmitting == isWriting \/ isConfirming

(* ---------------------------------------------------------------------- *)
(* Values both detail pages derive from the hooks                         *)
(* ---------------------------------------------------------------------- *)
bounty == useBounty
voteState == useVoteState
isLoading == useBounty.isLoading \/ isLoadingClaims

\* bounty && address && bounty.issuer.toLowerCase() === address.toLowerCase()
isIssuer == bounty.present /\ address # "" /\ bounty.issuer = address
\* userStake && userStake > 0n
hasStake == useUserStake.loaded /\ useUserStake.val > 0
\* the truthiness of useHasVoted().data: undefined is falsy
hasVoted == useHasVoted.loaded /\ useHasVoted.val
\* votingDeadline ? Date.now() > votingDeadline : false  (0n is no deadline)
isVotingExpired ==
  voteState.present /\ voteState.v.deadline # 0 /\ now > voteState.v.deadline

(* ---------------------------------------------------------------------- *)
(* BountyDetailPage (src/app/create/page.tsx, second component)           *)
(* ---------------------------------------------------------------------- *)
hasClaimed == address # "" /\ address \in Claimants
canWithdraw ==
  (bounty.present /\ bounty.state = OPEN /\ hasStake /\ ~isIssuer)
  \/ (bounty.present /\ bounty.state = CANCELLED)
totalVoted == IF voteState.present THEN voteState.v.yes + voteState.v.no ELSE 0
allVotesCast == bounty.present /\ totalVoted >= bounty.totalStaked
canResolveVote == isVotingExpired \/ allVotesCast

\* the page is past its loading and not-found returns
BountyPageShown == page = "bounty" /\ ~isLoading /\ bounty.present

BountyPage_openButtons == BountyPageShown /\ bounty.state = OPEN
\* Join (submits the join form)
BountyPage_JoinSubmit == BountyPage_openButtons /\ form = "join"
\* Submit (submits the claim form)
BountyPage_ClaimSubmit == BountyPage_openButtons /\ form = "claim"
\* Cancel Bounty
BountyPage_Cancel == BountyPage_openButtons /\ form = "none" /\ isIssuer
\* Withdraw while OPEN
BountyPage_WithdrawOpen ==
  BountyPage_openButtons /\ form = "none" /\ ~isIssuer /\ bounty.joinable /\ hasStake
\* Join (opens the join form)
BountyPage_JoinOpen ==
  BountyPage_openButtons /\ form = "none" /\ ~isIssuer /\ bounty.joinable /\ ~hasStake
\* Submit Claim (opens the claim form)
BountyPage_ClaimOpen == BountyPage_openButtons /\ form = "none" /\ ~isIssuer
\* a Resolve Vote button that is not inside the VOTING block
BountyPage_Resolve_anyState == BountyPageShown /\ canResolveVote
\* Resolve Vote
BountyPage_Resolve == BountyPageShown /\ bounty.state = VOTING /\ canResolveVote
\* Vote Yes / Vote No
BountyPage_Vote ==
  /\ BountyPageShown /\ bounty.state = VOTING
  /\ ~canResolveVote
  /\ ~(hasStake /\ hasVoted)
  /\ hasStake /\ ~hasVoted
\* Withdraw Stake on a cancelled bounty
BountyPage_WithdrawCancelled ==
  BountyPageShown /\ bounty.state = CANCELLED /\ hasStake
\* a withdraw button rendered on the canWithdraw predicate, which no button uses
BountyPage_Withdraw_canWithdraw == BountyPageShown /\ canWithdraw
BountyPage_Withdraw == BountyPage_WithdrawOpen \/ BountyPage_WithdrawCancelled

(* ---------------------------------------------------------------------- *)
(* ClaimDetailPage (src/app/claim/[bountyAddress]/[claimId]/page.tsx)     *)
(* ---------------------------------------------------------------------- *)
\* claims.find((c) => c.id === claimId)
claim == claimId < ClaimsLength
canStartVote == bounty.present /\ bounty.state = OPEN /\ (isIssuer \/ hasStake)
\* votingClaimId === claimId; votingClaimId is null without a vote state
isVotingOnThis ==
  bounty.present /\ bounty.state = VOTING
  /\ voteState.present /\ voteState.v.claimId = claimId

ClaimPageShown == page = "claim" /\ ~isLoading /\ bounty.present /\ claim

\* Vote Yes / Vote No
ClaimPage_Vote == ClaimPageShown /\ isVotingOnThis /\ ~hasVoted /\ hasStake
\* Select for Voting
ClaimPage_StartVote ==
  ClaimPageShown /\ ~ClaimPage_Vote
  /\ bounty.state = OPEN /\ isIssuer /\ bounty.joinable
\* Accept & Pay Out
ClaimPage_Accept ==
  ClaimPageShown /\ ~ClaimPage_Vote
  /\ bounty.state = OPEN /\ isIssuer /\ ~bounty.joinable
\* Resolve Vote, inside the voting status card
ClaimPage_Resolve ==
  ClaimPageShown /\ isVotingOnThis /\ voteState.present /\ isVotingExpired

(* ---------------------------------------------------------------------- *)
(* BountyCard.getActionTags (src/components/state-badge.tsx)              *)
(* ---------------------------------------------------------------------- *)
\* useUserJoinedBounties: fixture funders that are not the issuer; empty in live mode
userJoinedBounties ==
  IF DEMO_MODE /\ address # "" /\ IsFixtureBounty
     /\ MockStakeOf(bountyNum, address) > 0 /\ MOCK_BOUNTIES[bountyNum].issuer # address
  THEN {bountyNum}
  ELSE {}

getActionTags(b, userAddress, joined, claimed) ==
  LET cardIsIssuer == userAddress # "" /\ b.issuer = userAddress
      hasJoined == userAddress # "" /\ joined
      cardHasClaimed == userAddress # "" /\ claimed
      cardHasStake == cardIsIssuer \/ hasJoined
  IN  IF b.state = VOTING /\ cardHasStake THEN {"Vote"}
      ELSE IF b.state = CANCELLED /\ cardHasStake THEN {"Withdraw"}
      ELSE IF b.state = OPEN /\ cardIsIssuer /\ b.claimsCount > 0 THEN {"Select"}
      ELSE (IF b.state = OPEN /\ b.joinable /\ userAddress # "" /\ ~cardIsIssuer /\ ~hasJoined
            THEN {"Join"} ELSE {})
           \cup
           (IF b.state = OPEN /\ userAddress # "" /\ ~cardIsIssuer /\ ~cardHasClaimed
            THEN {"Claim"} ELSE {})

\* the card of the viewed bounty as the bounties list renders it
BountyCard_actionTags ==
  IF bounty.present
  THEN getActionTags([issuer |-> bounty.issuer, state |-> bounty.state,
                      joinable |-> bounty.joinable, claimsCount |-> ClaimsLength],
                     address, bountyNum \in userJoinedBounties, hasClaimed)
  ELSE {}

(* ---------------------------------------------------------------------- *)
(* The bounty contract (external; lifecycle of the specification §4.2).   *)
(* The page's user holds `stake`; every other funder is folded into       *)
(* `other`, which votes as one block.                                     *)
(* ---------------------------------------------------------------------- *)
\* the stake one account may hold
MaxStake == 1

ChainTotalStaked(c) == c.stake + c.other
\* who is WALLET (the page's user) or OTHER_ADDR (everyone else)
StakeOf(c, who) == IF who = WALLET THEN c.stake ELSE c.other
VotedInRound(c, who) ==
  IF who = WALLET THEN c.vote.votingRound \in c.voted ELSE c.otherVoted

\* does the contract accept call fn from account who
ContractAccepts(c, who, fn) ==
  CASE fn = "stake"        -> c.state = OPEN /\ c.joinable /\ StakeOf(c, who) < MaxStake
    [] fn = "withdraw"     -> /\ StakeOf(c, who) > 0
                              /\ \/ c.state = OPEN /\ c.issuer # who
                                 \/ c.state = CANCELLED
    [] fn = "cancel"       -> c.state = OPEN /\ c.issuer = who
    [] fn = "submitClaim"  -> c.state = OPEN
    [] fn = "initiateVote" -> /\ c.state = OPEN
                              /\ (c.issuer = who \/ StakeOf(c, who) > 0)
                              /\ c.vote.votingRound < MaxRound
    [] fn = "vote"         -> /\ c.state = VOTING
                              /\ StakeOf(c, who) > 0
                              /\ ~VotedInRound(c, who)
    [] fn = "resolveVote"  -> /\ c.state = VOTING
                              /\ \/ now > c.vote.deadline
                                 \/ c.vote.yes + c.vote.no >= ChainTotalStaked(c)
    [] fn = "acceptClaim"  -> c.state = OPEN /\ ~c.joinable /\ c.issuer = who
    [] OTHER               -> FALSE

\* the contracts a resolved vote may leave behind: paid out and closed when yes
\* outweighs no, reopened when no outweighs yes, either on a tie
Resolved(c) ==
  (IF c.vote.yes >= c.vote.no
     THEN { [c EXCEPT !.state = CLOSED, !.stake = 0, !.other = 0] } ELSE {})
  \cup
  (IF c.vote.yes <= c.vote.no THEN { [c EXCEPT !.state = OPEN] } ELSE {})

Staked(c, who, n) ==
  IF who = WALLET THEN [c EXCEPT !.stake = n] ELSE [c EXCEPT !.other = n]

Voted(c, who, support) ==
  LET tally == [c EXCEPT
                  !.vote.yes = IF support THEN @ + StakeOf(c, who) ELSE @,
                  !.vote.no = IF support THEN @ ELSE @ + StakeOf(c, who)]
  IN  IF who = WALLET
      THEN [tally EXCEPT !.voted = @ \cup {c.vote.votingRound}]
      ELSE [tally EXCEPT !.otherVoted = TRUE]

\* the contracts call fn(arg) from account who may leave behind
ContractApply(c, who, fn, arg) ==
  CASE fn = "stake"        -> { Staked(c, who, StakeOf(c, who) + 1) }
    [] fn = "withdraw"     -> { Staked(c, who, 0) }
    [] fn = "cancel"       -> { [c EXCEPT !.state = CANCELLED] }
    [] fn = "initiateVote" ->
         { [c EXCEPT !.state = VOTING, !.otherVoted = FALSE,
                     !.vote = VoteTuple(arg, 0, 0, now + VotingWindow,
                                        c.vote.votingRound + 1)] }
    [] fn = "vote"         -> { Voted(c, who, arg = 1) }
    [] fn = "resolveVote"  -> Resolved(c)
    [] fn = "acceptClaim"  -> { [c EXCEPT !.state = CLOSED, !.stake = 0, !.other = 0] }
    [] OTHER               -> { c }

\* no contract is read in demo mode or on the create page
NoContract ==
  [issuer |-> OTHER_ADDR, joinable |-> FALSE, state |-> OPEN, stake |-> 0, other |-> 0,
   vote |-> NoVote, voted |-> {}, otherVoted |-> FALSE]

\* the calls an account makes with their arguments
ContractCalls ==
  ({"stake", "withdraw", "cancel", "resolveVote", "submitClaim"} \X {0})
  \cup ({"initiateVote", "acceptClaim"} \X ClaimIds)
  \cup ({"vote"} \X {0, 1})

(* ---------------------------------------------------------------------- *)
(* Environment: the other accounts, the clock                             *)
(* ---------------------------------------------------------------------- *)
OthersCall ==
  /\ ~DEMO_MODE /\ page \in {"bounty", "claim"}
  /\ \E call \in ContractCalls :
       /\ call[1] # "submitClaim"
       /\ ContractAccepts(chain, OTHER_ADDR, call[1])
       /\ chain' \in ContractApply(chain, OTHER_ADDR, call[1], call[2])
  /\ rVote' = IF rVote.loaded THEN Loaded(chain'.vote) ELSE rVote
  /\ UNCHANGED << extVars, DEMO_MODE, page, bountyNum, claimId, now, rIssuer, rState,
                  rTotalStaked, rJoinable, rClaims, rStake, rHasVoted,
                  walletAddress, form, joinAmount, claimName, title, description,
                  amount, isUploading, submitPc, write, error >>

Tick ==
  /\ page \in {"bounty", "claim"}
  /\ now < MaxTime
  /\ now' = now + 1
  /\ UNCHANGED << extVars, DEMO_MODE, page, bountyNum, claimId, chain, rIssuer, rState,
                  rTotalStaked, rJoinable, rClaims, rVote, rStake, rHasVoted,
                  walletAddress, form, joinAmount, claimName, title, description,
                  amount, isUploading, submitPc, write, error >>

(* ---------------------------------------------------------------------- *)
(* Contract reads of the detail pages returning (live mode)               *)
(* ---------------------------------------------------------------------- *)
LiveDetailPage == ~DEMO_MODE /\ page \in {"bounty", "claim"}

\* issuer, state, totalStaked and the claims are requested together on mount and
\* are taken to return together; joinable, which no loading flag waits for, and the
\* reads that need the wallet's address return on their own
ReadBounty ==
  /\ LiveDetailPage /\ ~rIssuer.loaded
  /\ rIssuer' = Loaded(chain.issuer)
  /\ rState' = Loaded(chain.state)
  /\ rTotalStaked' = Loaded(ChainTotalStaked(chain))
  /\ rClaims' = TRUE
  /\ UNCHANGED << extVars, DEMO_MODE, page, bountyNum, claimId, now, chain,
                  rJoinable, rVote, rStake, rHasVoted,
                  walletAddress, form, joinAmount, claimName, title, description,
                  amount, isUploading, submitPc, write, error >>

ReadJoinable ==
  /\ LiveDetailPage /\ ~rJoinable.loaded
  /\ rJoinable' = Loaded(chain.joinable)
  /\ UNCHANGED << extVars, DEMO_MODE, page, bountyNum, claimId, now, chain, rIssuer, rState,
                  rTotalStaked, rClaims, rVote, rStake, rHasVoted,
                  walletAddress, form, joinAmount, claimName, title, description,
                  amount, isUploading, submitPc, write, error >>

\* currentVote: the first fetch. After it the poll (refetchInterval) and refetchVote()
\* are taken to run right after every contract call: see OthersCall and Mined
ReadVote ==
  /\ LiveDetailPage /\ ~rVote.loaded
  /\ rVote' = Loaded(chain.vote)
  /\ UNCHANGED << extVars, DEMO_MODE, page, bountyNum, claimId, now, chain, rIssuer, rState,
                  rTotalStaked, rJoinable, rClaims, rStake, rHasVoted,
                  walletAddress, form, joinAmount, claimName, title, description,
                  amount, isUploading, submitPc, write, error >>

\* account_Stake(user), enabled once there is an address
ReadStake ==
  /\ LiveDetailPage /\ address # "" /\ ~rStake.loaded
  /\ rStake' = Loaded(chain.stake)
  /\ UNCHANGED << extVars, DEMO_MODE, page, bountyNum, claimId, now, chain, rIssuer, rState,
                  rTotalStaked, rJoinable, rClaims, rVote, rHasVoted,
                  walletAddress, form, joinAmount, claimName, title, description,
                  amount, isUploading, submitPc, write, error >>

\* account_Round_HasVoted(user, votingRound): the query of the round now asked for
ReadHasVoted ==
  /\ LiveDetailPage /\ HasVotedEnabled /\ ~useHasVoted.loaded
  /\ rHasVoted' = [loaded |-> TRUE, round |-> voteState.v.votingRound,
                   val |-> voteState.v.votingRound \in chain.voted]
  /\ UNCHANGED << extVars, DEMO_MODE, page, bountyNum, claimId, now, chain, rIssuer, rState,
                  rTotalStaked, rJoinable, rClaims, rVote, rStake,
                  walletAddress, form, joinAmount, claimName, title, description,
                  amount, isUploading, submitPc, write, error >>

(* ---------------------------------------------------------------------- *)
(* Wallet                                                                 *)
(* ---------------------------------------------------------------------- *)
\* the connection attempted on mount resolves
AutoConnect ==
  /\ walletAddress = ""
  /\ submitPc = "idle"
  /\ walletAddress' = WALLET
  /\ UNCHANGED << extVars, DEMO_MODE, page, bountyNum, claimId, now, chain, rIssuer, rState,
                  rTotalStaked, rJoinable, rClaims, rVote, rStake, rHasVoted,
                  form, joinAmount, claimName, title, description,
                  amount, isUploading, submitPc, write, error >>

\* the body every write handler of the detail pages shares:
\* setError(null); connect when there is no address; writeContract(fn, arg)
RunHandler(fn, arg) ==
  /\ UNCHANGED << extVars, DEMO_MODE, page, bountyNum, claimId, now, chain, rIssuer, rState,
                  rTotalStaked, rJoinable, rClaims, rVote, rStake, rHasVoted,
                  form, joinAmount, claimName, title, description,
                  amount, isUploading, submitPc >>
  /\ IF address # ""
     THEN /\ write' = [status |-> "pending", fn |-> fn, arg |-> arg]
          /\ error' = ""
          /\ UNCHANGED walletAddress
     ELSE \/ /\ write' = [status |-> "pending", fn |-> fn, arg |-> arg]
             /\ error' = ""
             /\ walletAddress' = WALLET
          \/ /\ error' = "User rejected the request"
             /\ UNCHANGED << write, walletAddress >>

(* ---------------------------------------------------------------------- *)
(* Write handlers, invoked by the buttons that render them                *)
(* ---------------------------------------------------------------------- *)
handleVote(support) ==
  /\ BountyPage_Vote \/ ClaimPage_Vote
  /\ ~isSubmitting
  /\ RunHandler("vote", IF support THEN 1 ELSE 0)

\* the claim page starts the vote on its own claim
handleStartVote ==
  /\ ClaimPage_StartVote
  /\ ~isSubmitting
  /\ RunHandler("initiateVote", claimId)

handleAcceptClaim ==
  /\ ClaimPage_Accept
  /\ ~isSubmitting
  /\ RunHandler("acceptClaim", claimId)

handleResolveVote ==
  /\ BountyPage_Resolve \/ ClaimPage_Resolve
  /\ ~isSubmitting
  /\ RunHandler("resolveVote", 0)

handleCancel ==
  /\ BountyPage_Cancel
  /\ ~isSubmitting
  /\ RunHandler("cancel", 0)

handleWithdraw ==
  /\ BountyPage_Withdraw
  /\ ~isSubmitting
  /\ RunHandler("withdraw", 0)

(* ---------------------------------------------------------------------- *)
(* The forms of the bounty page                                           *)
(* ---------------------------------------------------------------------- *)
SetForm(f) ==
  /\ form' = f
  /\ UNCHANGED << extVars, DEMO_MODE, page, bountyNum, claimId, now, chain, rIssuer, rState,
                  rTotalStaked, rJoinable, rClaims, rVote, rStake, rHasVoted,
                  walletAddress, joinAmount, claimName, title, description,
                  amount, isUploading, submitPc, write, error >>

\* setShowJoinForm(true); setShowClaimForm(false)
OpenJoinForm == BountyPage_JoinOpen /\ SetForm("join")
\* setShowClaimForm(true); setShowJoinForm(false)
OpenClaimForm == BountyPage_ClaimOpen /\ SetForm("claim")
\* the Cancel button of either form
CloseForm == (BountyPage_JoinSubmit \/ BountyPage_ClaimSubmit) /\ SetForm("none")

(* ---------------------------------------------------------------------- *)
(* The life of a write: wallet prompt, confirmation, receipt              *)
(* ---------------------------------------------------------------------- *)
\* the wallet signs and broadcasts: txHash is set
WalletConfirms ==
  /\ isWriting
  /\ write' = [write EXCEPT !.status = "confirming"]
  /\ UNCHANGED << extVars, DEMO_MODE, page, bountyNum, claimId, now, chain, rIssuer, rState,
                  rTotalStaked, rJoinable, rClaims, rVote, rStake, rHasVoted,
                  walletAddress, form, joinAmount, claimName, title, description,
                  amount, isUploading, submitPc, error >>

\* writeError is set and its effect runs: setError(message); resetWrite()
WriteErrorEffect ==
  /\ isWriting
  /\ error' = "User rejected the request"
  /\ write' = Idle
  /\ UNCHANGED << extVars, DEMO_MODE, page, bountyNum, claimId, now, chain, rIssuer, rState,
                  rTotalStaked, rJoinable, rClaims, rVote, rStake, rHasVoted,
                  walletAddress, form, joinAmount, claimName, title, description,
                  amount, isUploading, submitPc >>

\* the effect on receipt.status === "success": the detail pages clear the error, reset
\* the write and their forms; the create page leaves for the bounties list
SuccessEffect ==
  /\ write' = Idle
  /\ IF page = "bounty"
     THEN /\ claimName' = "" /\ joinAmount' = "" /\ form' = "none" /\ error' = ""
          /\ UNCHANGED page
     ELSE IF page = "create"
     THEN page' = "bounties" /\ UNCHANGED << claimName, joinAmount, form, error >>
     ELSE error' = "" /\ UNCHANGED << page, claimName, joinAmount, form >>

\* a receipt with any other status: no effect of any page reads it
RevertedReceipt ==
  /\ write' = [status |-> "reverted", fn |-> "", arg |-> 0]
  /\ UNCHANGED << page, claimName, joinAmount, form, error >>

\* the transaction is mined and its receipt arrives
Mined ==
  /\ isConfirming
  /\ IF LiveDetailPage
     THEN IF ContractAccepts(chain, WALLET, write.fn)
          THEN /\ chain' \in ContractApply(chain, WALLET, write.fn, write.arg)
               /\ SuccessEffect
          ELSE /\ RevertedReceipt
               /\ UNCHANGED chain
     ELSE /\ UNCHANGED chain
          /\ SuccessEffect \/ RevertedReceipt
  /\ rVote' = IF rVote.loaded THEN Loaded(chain'.vote) ELSE rVote
  /\ UNCHANGED << extVars, DEMO_MODE, bountyNum, claimId, now, rIssuer, rState,
                  rTotalStaked, rJoinable, rClaims, rStake, rHasVoted,
                  walletAddress, title, description,
                  amount, isUploading, submitPc >>

\* the browser reloads a detail page: every read starts again, React state is reset
Reload ==
  /\ page \in {"bounty", "claim"}
  /\ write.status \in {"idle", "reverted"}
  /\ rIssuer' = Pending("") /\ rState' = Pending(0) /\ rTotalStaked' = Pending(0)
  /\ rJoinable' = Pending(FALSE) /\ rClaims' = FALSE /\ rVote' = Pending(NoVote)
  /\ rStake' = Pending(0)
  /\ rHasVoted' = [loaded |-> FALSE, round |-> 0, val |-> FALSE]
  /\ walletAddress' = "" /\ form' = "none" /\ joinAmount' = "" /\ claimName' = ""
  /\ write' = Idle /\ error' = ""
  /\ << rIssuer, rState, rTotalStaked, rJoinable, rClaims, rVote, rStake, rHasVoted,
        walletAddress, form, joinAmount, claimName, write, error >>
       # << rIssuer', rState', rTotalStaked', rJoinable', rClaims', rVote', rStake',
            rHasVoted', walletAddress', form', joinAmount', claimName', write', error' >>
  /\ UNCHANGED << extVars, DEMO_MODE, page, bountyNum, claimId, now, chain, title, description,
                  amount, isUploading, submitPc >>

\* the bounties a detail page may be opened on: OPEN, before any round, the issuer's
\* deposit staked, other funders only when joinable
OpenBounties ==
  { [issuer |-> i, joinable |-> j, state |-> OPEN, stake |-> s, other |-> o,
     vote |-> NoVote, voted |-> {}, otherVoted |-> FALSE]
    : i \in {WALLET, OTHER_ADDR}, j \in BOOLEAN, s \in 0..MaxStake, o \in 0..MaxStake }

InitReads ==
  /\ rIssuer = Pending("") /\ rState = Pending(0) /\ rTotalStaked = Pending(0)
  /\ rJoinable = Pending(FALSE) /\ rClaims = FALSE /\ rVote = Pending(NoVote)
  /\ rStake = Pending(0)
  /\ rHasVoted = [loaded |-> FALSE, round |-> 0, val |-> FALSE]

InitClient ==
  /\ now = 0
  /\ walletAddress = "" /\ form = "none" /\ joinAmount = "" /\ claimName = ""
  /\ title = "" /\ description = "" /\ amount = ""
  /\ isUploading = FALSE /\ submitPc = "idle"
  /\ write = Idle /\ error = ""

Init ==
  /\ DEMO_MODE \in BOOLEAN
  /\ page \in {"bounty", "claim"}
  /\ bountyNum \in (IF DEMO_MODE THEN DemoBountyNums ELSE {0})
  /\ claimId = 0
  /\ chain \in (IF DEMO_MODE THEN {NoContract}
                ELSE { c \in OpenBounties :
                         /\ StakeOf(c, c.issuer) >= 1
                         /\ ~c.joinable => ChainTotalStaked(c) = StakeOf(c, c.issuer) })
  /\ InitReads
  /\ InitClient
  /\ ExtIdle

Next ==
  \/ OthersCall \/ Tick
  \/ ReadBounty \/ ReadJoinable
  \/ ReadVote \/ ReadStake \/ ReadHasVoted
  \/ AutoConnect
  \/ \E support \in BOOLEAN : handleVote(support)
  \/ handleStartVote \/ handleAcceptClaim \/ handleResolveVote
  \/ handleCancel \/ handleWithdraw
  \/ OpenJoinForm \/ OpenClaimForm \/ CloseForm
  \/ WalletConfirms \/ WriteErrorEffect \/ Mined
  \/ Reload

Spec == Init /\ [][Next]_vars

(* ---------------------------------------------------------------------- *)
(* Form input: what the user can type, and how the handlers read it       *)
(* ---------------------------------------------------------------------- *)
\* a text field: empty, white space only, or some text
TextInputs == {"", " ", "T"}
\* String.prototype.trim
Trim(str) == IF str = " " THEN "" ELSE str

\* an amount field: empty, not a number, zero, negative, a positive decimal
AmountInputs == {"", "abc", "0", "-1", "0.5"}

\* parseFloat: NaN for what does not start with a number; else the value, in 0.01 ETH
parseFloat(str) ==
  CASE str = "0"   -> [nan |-> FALSE, val |-> 0]
    [] str = "-1"  -> [nan |-> FALSE, val |-> 0 - 100]
    [] str = "0.5" -> [nan |-> FALSE, val |-> 50]
    [] OTHER       -> [nan |-> TRUE, val |-> 0]

\* a comparison with NaN is false
LessOrEqualZero(x) == ~x.nan /\ x.val <= 0

\* viem parseEther: throws InvalidDecimalNumberError unless -?digits[.digits]
parseEther(str) ==
  CASE str = "abc" -> [throws |-> TRUE, val |-> 0]
    [] str = ""    -> [throws |-> FALSE, val |-> 0]
    [] OTHER       -> [throws |-> FALSE, val |-> parseFloat(str).val]

(* ---------------------------------------------------------------------- *)
(* The join and claim forms of the bounty page                            *)
(* ---------------------------------------------------------------------- *)
\* onChange of the join amount input, disabled while submitting
SetJoinAmount(a) ==
  /\ BountyPage_JoinSubmit /\ ~isSubmitting
  /\ joinAmount # a
  /\ joinAmount' = a
  /\ UNCHANGED << extVars, DEMO_MODE, page, bountyNum, claimId, now, chain, rIssuer, rState,
                  rTotalStaked, rJoinable, rClaims, rVote, rStake, rHasVoted,
                  walletAddress, form, claimName, title, description,
                  amount, isUploading, submitPc, write, error >>

\* onChange of the claim name input, disabled while submitting
SetClaimName(n) ==
  /\ BountyPage_ClaimSubmit /\ ~isSubmitting
  /\ claimName # n
  /\ claimName' = n
  /\ UNCHANGED << extVars, DEMO_MODE, page, bountyNum, claimId, now, chain, rIssuer, rState,
                  rTotalStaked, rJoinable, rClaims, rVote, rStake, rHasVoted,
                  walletAddress, form, joinAmount, title, description,
                  amount, isUploading, submitPc, write, error >>

\* the Join button of the join form is disabled={isSubmitting || !joinAmount}
handleJoin ==
  /\ BountyPage_JoinSubmit /\ ~isSubmitting /\ joinAmount # ""
  /\ UNCHANGED << extVars, DEMO_MODE, page, bountyNum, claimId, now, chain, rIssuer, rState,
                  rTotalStaked, rJoinable, rClaims, rVote, rStake, rHasVoted,
                  form, joinAmount, claimName, title, description,
                  amount, isUploading, submitPc >>
  /\ IF joinAmount = "" \/ LessOrEqualZero(parseFloat(joinAmount))
     THEN /\ error' = "Please enter a valid amount"
          /\ UNCHANGED << write, walletAddress >>
     ELSE \/ /\ address = ""
             /\ error' = "User rejected the request"
             /\ UNCHANGED << write, walletAddress >>
          \/ /\ walletAddress' = IF address = "" THEN WALLET ELSE walletAddress
             /\ IF parseEther(joinAmount).throws
                THEN error' = "Invalid decimal number" /\ UNCHANGED write
                ELSE /\ error' = ""
                     /\ write' = [status |-> "pending", fn |-> "stake",
                                  arg |-> parseEther(joinAmount).val]

\* the Submit button of the claim form is disabled={isSubmitting || !claimName.trim()}
handleSubmitClaim ==
  /\ BountyPage_ClaimSubmit /\ ~isSubmitting /\ Trim(claimName) # ""
  /\ IF Trim(claimName) = ""
     THEN /\ error' = "Claim name is required"
          /\ UNCHANGED << extVars, DEMO_MODE, page, bountyNum, claimId, now, chain, rIssuer,
                          rState, rTotalStaked, rJoinable, rClaims, rVote, rStake,
                          rHasVoted, walletAddress, form, joinAmount, claimName, title,
                          description, amount, isUploading, submitPc, write >>
     ELSE RunHandler("submitClaim", 0)

(* ---------------------------------------------------------------------- *)
(* src/lib/ipfs.ts: fetchFromIPFS, getIPFSUrl, toIPFSUri                  *)
(* ---------------------------------------------------------------------- *)
PINATA_GATEWAY == "https://gateway.pinata.cloud/ipfs"

\* the strings of at most MaxPieces pieces
Strings == UNION { [1..n -> Pieces] : n \in 0..MaxPieces }

\* String.prototype.startsWith
startsWith(str, prefix) == Len(str) >= 1 /\ str[1] = prefix

\* String.prototype.replace(piece, ""): the first occurrence is removed
RECURSIVE replaceWithEmpty(_, _)
replaceWithEmpty(str, piece) ==
  IF str = << >> THEN << >>
  ELSE IF Head(str) = piece THEN Tail(str)
  ELSE << Head(str) >> \o replaceWithEmpty(Tail(str), piece)

\* the longest run of letters and digits str starts with
RECURSIVE alnumRun(_)
alnumRun(str) ==
  IF str # << >> /\ Head(str) = "Qm" THEN << "Qm" >> \o alnumRun(Tail(str)) ELSE << >>

\* uri.match(/\/ipfs\/([a-zA-Z0-9]+)/): match[1], or << >> for no match
RECURSIVE matchIpfsPath(_)
matchIpfsPath(str) ==
  IF Len(str) < 2 THEN << >>
  ELSE IF str[1] = "/ipfs/" /\ str[2] = "Qm" THEN alnumRun(Tail(str))
  ELSE matchIpfsPath(Tail(str))

\* encodeURIComponent: letters and digits stay, ':' and '/' are escaped
encodeURIComponent(str) ==
  [ i \in 1..Len(str) |->
      CASE str[i] = "ipfs://"  -> "ipfs%3A%2F%2F"
        [] str[i] = "https://" -> "https%3A%2F%2F"
        [] str[i] = "/ipfs/"   -> "%2Fipfs%2F"
        [] str[i] = "/"        -> "%2F"
        [] OTHER               -> str[i] ]

\* a cid that keeps its scheme prefix
stripScheme_kept(uri) == uri

\* cid = uri.replace("ipfs://", "")
stripScheme(uri) == replaceWithEmpty(uri, "ipfs://")

\* fetch(`/api/ipfs/${encodeURIComponent(cid)}`)
proxyRequest(cid) ==
  [kind |-> "proxy", url |-> << "/api/ipfs/" >> \o encodeURIComponent(cid)]

\* fetchFromIPFS(uri): the request it sends; none for an empty uri
fetchFromIPFS(uri) ==
  IF uri = << >> THEN NoRequestSent
  ELSE IF startsWith(uri, "ipfs://") THEN proxyRequest(stripScheme(uri))
  ELSE IF startsWith(uri, "https://")
  THEN IF matchIpfsPath(uri) # << >>
       THEN proxyRequest(matchIpfsPath(uri))
       ELSE [kind |-> "direct", url |-> uri]
  ELSE proxyRequest(uri)

\* getIPFSUrl(cid)
getIPFSUrl(cid) ==
  IF cid = << >> THEN << >>
  ELSE << PINATA_GATEWAY, "/" >>
         \o (IF startsWith(cid, "ipfs://") THEN replaceWithEmpty(cid, "ipfs://") ELSE cid)

\* toIPFSUri(cid)
toIPFSUri(cid) == IF startsWith(cid, "ipfs://") THEN cid ELSE << "ipfs://" >> \o cid

(* ---------------------------------------------------------------------- *)
(* CreateBountyPage (src/app/create/page.tsx, first component)            *)
(* The page uses the wallet's address in both modes.                      *)
(* ---------------------------------------------------------------------- *)
createIsSubmitting == isUploading \/ isWriting \/ isConfirming
canSubmit ==
  Trim(title) # "" /\ Trim(description) # "" /\ amount # "" /\ ~createIsSubmitting

CreateFormEditable == page = "create" /\ ~createIsSubmitting

SetTitle(t) ==
  /\ CreateFormEditable /\ title # t
  /\ title' = t
  /\ UNCHANGED << extVars, DEMO_MODE, page, bountyNum, claimId, now, chain, rIssuer, rState,
                  rTotalStaked, rJoinable, rClaims, rVote, rStake, rHasVoted,
                  walletAddress, form, joinAmount, claimName, description,
                  amount, isUploading, submitPc, write, error >>

SetDescription(d) ==
  /\ CreateFormEditable /\ description # d
  /\ description' = d
  /\ UNCHANGED << extVars, DEMO_MODE, page, bountyNum, claimId, now, chain, rIssuer, rState,
                  rTotalStaked, rJoinable, rClaims, rVote, rStake, rHasVoted,
                  walletAddress, form, joinAmount, claimName, title,
                  amount, isUploading, submitPc, write, error >>

SetAmount(a) ==
  /\ CreateFormEditable /\ amount # a
  /\ amount' = a
  /\ UNCHANGED << extVars, DEMO_MODE, page, bountyNum, claimId, now, chain, rIssuer, rState,
                  rTotalStaked, rJoinable, rClaims, rVote, rStake, rHasVoted,
                  walletAddress, form, joinAmount, claimName, title, description,
                  isUploading, submitPc, write, error >>

\* handleSubmit up to its first await: validation, then connectAsync or uploadToIPFS
handleSubmit ==
  /\ page = "create" /\ canSubmit /\ submitPc = "idle"
  /\ UNCHANGED << extVars, DEMO_MODE, page, bountyNum, claimId, now, chain, rIssuer, rState,
                  rTotalStaked, rJoinable, rClaims, rVote, rStake, rHasVoted,
                  walletAddress, form, joinAmount, claimName, title, description,
                  amount, write >>
  /\ IF Trim(title) = "" \/ Trim(description) = ""
     THEN /\ error' = "Title and description are required"
          /\ UNCHANGED << isUploading, submitPc >>
     ELSE IF amount = "" \/ LessOrEqualZero(parseFloat(amount))
     THEN /\ error' = "Please enter a valid amount"
          /\ UNCHANGED << isUploading, submitPc >>
     ELSE /\ error' = ""
          /\ isUploading' = TRUE
          /\ submitPc' = IF walletAddress = "" THEN "connecting" ELSE "uploading"

\* connectAsync resolves: the upload request is sent
handleSubmit_connected ==
  /\ submitPc = "connecting"
  /\ walletAddress' = WALLET
  /\ submitPc' = "uploading"
  /\ UNCHANGED << extVars, DEMO_MODE, page, bountyNum, claimId, now, chain, rIssuer, rState,
                  rTotalStaked, rJoinable, rClaims, rVote, rStake, rHasVoted,
                  form, joinAmount, claimName, title, description,
                  amount, isUploading, write, error >>

\* the routes and hooks that handleSubmit does not touch
routeVars == << proxyVars, uploadVars, readsVars, feedVars, batchVars, listingVars,
                ipfsVars, clicksVars, claimedVars, activityVars >>

\* a catch block that sets the error and leaves isUploading as it was
handleSubmit_failed_stillUploading ==
  /\ submitPc \in {"connecting", "uploading"}
  /\ error' = IF submitPc = "connecting" THEN "User rejected the request"
              ELSE "Failed to upload to IPFS"
  /\ submitPc' = "idle"
  /\ UNCHANGED << extVars, DEMO_MODE, page, bountyNum, claimId, now, chain, rIssuer, rState,
                  rTotalStaked, rJoinable, rClaims, rVote, rStake, rHasVoted,
                  walletAddress, form, joinAmount, claimName, title, description,
                  amount, isUploading, write >>

\* connectAsync or uploadToIPFS rejects: the catch block
handleSubmit_failed ==
  /\ submitPc \in {"connecting", "uploading"}
  /\ isUploading' = FALSE
  /\ error' = IF submitPc = "connecting" THEN "User rejected the request"
              ELSE "Failed to upload to IPFS"
  /\ submitPc' = "idle"
  /\ UNCHANGED << extVars, DEMO_MODE, page, bountyNum, claimId, now, chain, rIssuer, rState,
                  rTotalStaked, rJoinable, rClaims, rVote, rStake, rHasVoted,
                  walletAddress, form, joinAmount, claimName, title, description,
                  amount, write >>

\* the cids an upload can resolve with: a bare cid, a longer one, one already a URI
UploadedCids == { << "Qm" >>, << "Qm", "Qm" >>, << "ipfs://", "Qm" >> }

\* uploadToIPFS resolves with c: toIPFSUri(c); setIsUploading(false);
\* writeContract({args: [metadataURI, joinable], value: parseEther(amount)})
handleSubmit_uploaded(c) ==
  /\ submitPc = "uploading"
  /\ uploaded' = c
  /\ isUploading' = FALSE
  /\ submitPc' = "idle"
  /\ IF parseEther(amount).throws
     THEN error' = "Invalid decimal number" /\ UNCHANGED << write, metadataURI >>
     ELSE /\ write' = [status |-> "pending", fn |-> "createBounty",
                       arg |-> parseEther(amount).val]
          /\ metadataURI' = toIPFSUri(c)
          /\ UNCHANGED error
  /\ UNCHANGED << routeVars, DEMO_MODE, page, bountyNum, claimId, now, chain, rIssuer, rState,
                  rTotalStaked, rJoinable, rClaims, rVote, rStake, rHasVoted,
                  walletAddress, form, joinAmount, claimName, title, description,
                  amount >>

\* the upload answers OK without a cid: toIPFSUri(undefined) throws, the catch block runs
handleSubmit_noCid ==
  /\ submitPc = "uploading"
  /\ isUploading' = FALSE
  /\ submitPc' = "idle"
  /\ error' = "Cannot read properties of undefined"
  /\ UNCHANGED << extVars, DEMO_MODE, page, bountyNum, claimId, now, chain, rIssuer, rState,
                  rTotalStaked, rJoinable, rClaims, rVote, rStake, rHasVoted,
                  walletAddress, form, joinAmount, claimName, title, description,
                  amount, write >>

(* ---------------------------------------------------------------------- *)
(* The forms: the create page, and the bounty page open on an OPEN bounty *)
(* ---------------------------------------------------------------------- *)
InitForms ==
  /\ DEMO_MODE \in BOOLEAN
  /\ page \in {"create", "bounty"}
  /\ bountyNum \in (IF DEMO_MODE /\ page = "bounty" THEN DemoBountyNums ELSE {0})
  /\ claimId = 0
  /\ chain \in (IF DEMO_MODE \/ page = "create" THEN {NoContract}
                ELSE { c \in OpenBounties :
                         /\ StakeOf(c, c.issuer) >= 1
                         /\ ~c.joinable => ChainTotalStaked(c) = StakeOf(c, c.issuer) })
  /\ InitReads
  /\ InitClient
  /\ ExtIdle

NextForms ==
  \/ ReadBounty \/ ReadJoinable \/ ReadStake
  \/ AutoConnect
  \/ OpenJoinForm \/ OpenClaimForm \/ CloseForm
  \/ \E a \in AmountInputs : SetJoinAmount(a)
  \/ \E n \in TextInputs : SetClaimName(n)
  \/ handleJoin \/ handleSubmitClaim
  \/ \E t \in TextInputs : SetTitle(t)
  \/ \E d \in TextInputs : SetDescription(d)
  \/ \E a \in AmountInputs : SetAmount(a)
  \/ handleSubmit \/ handleSubmit_connected \/ handleSubmit_failed
  \/ \E c \in UploadedCids : handleSubmit_uploaded(c)
  \/ handleSubmit_noCid
  \/ WalletConfirms \/ WriteErrorEffect \/ Mined

SpecForms == InitForms /\ [][NextForms]_vars

(* ---------------------------------------------------------------------- *)
(* What the pages and the card offer                                      *)
(* ---------------------------------------------------------------------- *)
VoteOffered == BountyPage_Vote \/ ClaimPage_Vote
ResolveOffered == BountyPage_Resolve \/ ClaimPage_Resolve

\* the contract calls the current page offers a button for
OfferedActions ==
  (IF BountyPage_JoinOpen \/ BountyPage_JoinSubmit THEN {"stake"} ELSE {})
  \cup (IF BountyPage_ClaimOpen \/ BountyPage_ClaimSubmit THEN {"submitClaim"} ELSE {})
  \cup (IF BountyPage_Cancel THEN {"cancel"} ELSE {})
  \cup (IF BountyPage_Withdraw THEN {"withdraw"} ELSE {})
  \cup (IF ResolveOffered THEN {"resolveVote"} ELSE {})
  \cup (IF VoteOffered THEN {"vote"} ELSE {})
  \cup (IF ClaimPage_StartVote THEN {"initiateVote"} ELSE {})
  \cup (IF ClaimPage_Accept THEN {"acceptClaim"} ELSE {})

\* the contract calls the action tags of the card stand for
CardOfferedActions ==
  (IF "Vote" \in BountyCard_actionTags THEN {"vote"} ELSE {})
  \cup (IF "Withdraw" \in BountyCard_actionTags THEN {"withdraw"} ELSE {})
  \cup (IF "Select" \in BountyCard_actionTags THEN {"initiateVote"} ELSE {})
  \cup (IF "Join" \in BountyCard_actionTags THEN {"stake"} ELSE {})
  \cup (IF "Claim" \in BountyCard_actionTags THEN {"submitClaim"} ELSE {})

\* a handler hands call fn to writeContract in this step
Submits(fn) == write.status # "pending" /\ write'.status = "pending" /\ write'.fn = fn

\* the has-voted read for the round the page shows has returned false
KnownNotVoted == useHasVoted.loaded /\ ~useHasVoted.val
\* the joinable read has returned false (the fixture says false)
KnownNotJoinable ==
  IF DEMO_MODE THEN bounty.present /\ ~bounty.joinable
  ELSE rJoinable.loaded /\ ~rJoinable.val

\* the precondition of call fn over what the page has read
GatePrecondition(fn) ==
  CASE fn = "initiateVote" -> bounty.state = OPEN /\ (isIssuer \/ hasStake)
    [] fn = "vote"         -> bounty.state = VOTING /\ hasStake /\ KnownNotVoted
    [] fn = "resolveVote"  -> bounty.state = VOTING /\ canResolveVote
    [] fn = "acceptClaim"  -> bounty.state = OPEN /\ isIssuer /\ KnownNotJoinable
    [] fn = "cancel"       -> bounty.state = OPEN /\ isIssuer
    [] fn = "withdraw"     -> /\ hasStake
                              /\ \/ bounty.state = OPEN /\ ~isIssuer
                                 \/ bounty.state = CANCELLED
    [] OTHER               -> TRUE

GatedCalls ==
  {"initiateVote", "vote", "resolveVote", "acceptClaim", "cancel", "withdraw"}

(* ---------------------------------------------------------------------- *)
(* Properties                                                             *)
(* ---------------------------------------------------------------------- *)

\* C1: the Vote Yes / Vote No buttons are rendered only if the projected state is
\* VOTING, the user's stake is known and > 0 and the has-voted flag of the round is
\* known to be false; a user who has voted in the round the page shows is not
\* offered a vote. Pending reads included.
C1_VoteOnlyForStakerWhoHasNotVoted ==
  VoteOffered =>
    /\ bounty.state = VOTING
    /\ useUserStake.loaded /\ useUserStake.val > 0
    /\ KnownNotVoted
    /\ ~DEMO_MODE => voteState.v.votingRound \notin chain.voted

\* C2 (its first half): a user whose vote in round N is recorded by the contract is
\* not offered the vote action while the vote state the page holds reports round N.
C2_NoSecondVoteInTheSameRound ==
  (~DEMO_MODE /\ voteState.present /\ voteState.v.votingRound \in chain.voted)
    => ~VoteOffered

\* C3: a write handler invoked while its precondition fails over what the page has
\* read does not call writeContract.
C3_HandlersCheckPreconditions ==
  [][\A fn \in GatedCalls : Submits(fn) => GatePrecondition(fn)]_vars

\* C4: on the claim page Select for Voting is offered exactly when canStartVote:
\* the projected state is OPEN and the user is the issuer or has stake.
C4_StartVoteOfferedIffCanStartVote ==
  ClaimPageShown => (ClaimPage_StartVote <=> canStartVote)

\* C5: acceptClaim is offered or in flight only for the issuer of a bounty projected
\* OPEN and not joinable, and never for a bounty whose contract says joinable.
C5_AcceptOnlyForNonJoinable ==
  (ClaimPage_Accept \/ (isSubmitting /\ write.fn = "acceptClaim")) =>
    /\ ClaimPage_Accept => (isIssuer /\ bounty.state = OPEN /\ ~bounty.joinable)
    /\ ~DEMO_MODE => ~chain.joinable

\* C6: for a bounty projected CLOSED neither page nor the card offers any
\* state-changing action; for one projected CANCELLED they offer at most withdraw.
C6_TerminalStatesOfferNothing ==
  bounty.present =>
    /\ bounty.state = CLOSED => OfferedActions \cup CardOfferedActions = {}
    /\ bounty.state = CANCELLED =>
         OfferedActions \cup CardOfferedActions \subseteq {"withdraw"}

\* C6 witness: a cancelled bounty on the live bounty page, withdraw offered.
C6_Witness ==
  /\ ~DEMO_MODE /\ BountyPageShown /\ bounty.state = CANCELLED
  /\ OfferedActions = {"withdraw"}

\* C7: the bounty page offers withdraw only to a user with stake > 0, and only when
\* the bounty is OPEN and the user is not the issuer or the bounty is CANCELLED.
C7_WithdrawOnlyWithStake ==
  BountyPage_Withdraw =>
    /\ useUserStake.loaded /\ useUserStake.val > 0
    /\ \/ bounty.state = OPEN /\ ~isIssuer
       \/ bounty.state = CANCELLED
    /\ bounty.state \notin {VOTING, CLOSED}

\* C7 witness: a funder who is not the issuer sees Withdraw on a live OPEN bounty.
C7_Witness ==
  ~DEMO_MODE /\ BountyPage_WithdrawOpen /\ chain.stake > 0 /\ chain.issuer # WALLET

\* C8: on both pages showing a bounty in VOTING, Resolve Vote is offered exactly
\* when the deadline has passed or yes + no >= totalStaked.
C8_ResolveOfferedIffResolvable ==
  ((BountyPageShown \/ ClaimPageShown) /\ bounty.state = VOTING)
    => (ResolveOffered <=> canResolveVote)

\* an amount that is empty, not a number, zero or negative
InvalidAmount(a) == a = "" \/ parseFloat(a).nan \/ parseFloat(a).val <= 0

C10_RevertedReceiptSetsError ==
  write.status = "reverted" => error # ""

(* ---------------------------------------------------------------------- *)
(* The metadata proxy: GET /api/ipfs/[cid]                                *)
(* ---------------------------------------------------------------------- *)
\* a cache check that still serves an entry that is exactly CACHE_TTL old
IsFresh_inclusive(cid) ==
  cache[cid] # NoEntry /\ serverNow - cache[cid].timestamp <= CACHE_TTL

\* cached && Date.now() - cached.timestamp < CACHE_TTL
IsFresh(cid) ==
  cache[cid] # NoEntry /\ serverNow - cache[cid].timestamp < CACHE_TTL

\* a cache write that lands under every key
cacheSet_everyKey(cid, doc) ==
  [c \in Cids |-> [data |-> doc, timestamp |-> serverNow]]

\* cache.set(cid, { data, timestamp: Date.now() })
cacheSet(cid, doc) ==
  [cache EXCEPT ![cid] = [data |-> doc, timestamp |-> serverNow]]

\* NextResponse.json(body, { status })
Respond(q, status, body, err) ==
  [q EXCEPT !.pc = "done", !.status = status, !.body = body, !.error = err]

\* a loop that asks the gateway that has just failed once more
TryGateway_retrySame(q) ==
  LET k == Len(q.contacted) IN
    IF k < Len(IPFS_GATEWAYS)
    THEN [q EXCEPT !.pc = "fetch",
                   !.contacted = Append(@, IPFS_GATEWAYS[IF k = 0 THEN 1 ELSE k])]
    ELSE Respond(q, 502, NoDoc, "Failed to fetch from IPFS")

\* the for loop over IPFS_GATEWAYS started on its next gateway: the fetch is sent;
\* after the last gateway the loop is left and the answer is 502
TryGateway(q) ==
  LET k == Len(q.contacted) IN
    IF k < Len(IPFS_GATEWAYS)
    THEN [q EXCEPT !.pc = "fetch", !.contacted = Append(@, IPFS_GATEWAYS[k + 1])]
    ELSE Respond(q, 502, NoDoc, "Failed to fetch from IPFS")

\* the attempt at the gateway contacted last ended: "failed" (the loop goes on) or "ok"
Outcome(q, outcome) == [q EXCEPT !.outcomes = Append(@, outcome)]

ProxyStep(r, q) ==
  /\ reqs' = [reqs EXCEPT ![r] = q]
  /\ UNCHANGED << exceptProxy, serverNow >>

\* a request arrives and is suspended at await params
GET(r, cid) ==
  /\ reqs[r].pc = "none"
  /\ ProxyStep(r, [NoRequest EXCEPT !.pc = "params", !.cid = cid])
  /\ UNCHANGED << cache, fetched >>

\* params resolved: the cid check, the cache check, and the first gateway's fetch
GET_params(r) ==
  LET q == reqs[r] IN
    /\ q.pc = "params"
    /\ ProxyStep(r, IF q.cid = ""
                    THEN Respond(q, 400, NoDoc, "CID is required")
                    ELSE IF IsFresh(q.cid)
                    THEN Respond(q, 200, cache[q.cid].data, "")
                    ELSE TryGateway(q))
    /\ UNCHANGED << cache, fetched >>

\* params rejected: the outer catch
GET_paramsRejected(r) ==
  /\ reqs[r].pc = "params"
  /\ ProxyStep(r, Respond(reqs[r], 500, NoDoc, "Internal server error"))
  /\ UNCHANGED << cache, fetched >>

\* fetch threw (network error, or AbortSignal.timeout fired): catch, continue
GET_fetchRejected(r) ==
  /\ reqs[r].pc = "fetch"
  /\ ProxyStep(r, TryGateway(Outcome(reqs[r], "failed")))
  /\ UNCHANGED << cache, fetched >>

\* the gateway answered with a status that is not OK: the loop goes on
GET_notOk(r) ==
  /\ reqs[r].pc = "fetch"
  /\ ProxyStep(r, TryGateway(Outcome(reqs[r], "failed")))
  /\ UNCHANGED << cache, fetched >>

\* the gateway answered OK: suspended at await response.json()
GET_ok(r) ==
  /\ reqs[r].pc = "fetch"
  /\ ProxyStep(r, [reqs[r] EXCEPT !.pc = "json"])
  /\ UNCHANGED << cache, fetched >>

\* a catch that records the failed parse in the cache before the loop goes on
GET_jsonRejected_cached(r) ==
  /\ reqs[r].pc = "json"
  /\ cache' = cacheSet(reqs[r].cid, NoDoc)
  /\ ProxyStep(r, TryGateway(Outcome(reqs[r], "failed")))
  /\ UNCHANGED fetched

\* response.json() threw on a body that is no JSON: catch, continue
GET_jsonRejected(r) ==
  /\ reqs[r].pc = "json"
  /\ ProxyStep(r, TryGateway(Outcome(reqs[r], "failed")))
  /\ UNCHANGED << cache, fetched >>

\* response.json() resolved: the entry is written and the document returned
GET_json(r, doc) ==
  /\ reqs[r].pc = "json"
  /\ doc \in Docs(reqs[r].cid)
  /\ cache' = cacheSet(reqs[r].cid, doc)
  /\ fetched' = fetched \cup {doc}
  /\ ProxyStep(r, Respond(Outcome(reqs[r], "ok"), 200, doc, ""))

\* the response has been sent; the slot serves the next request
GET_closed(r) ==
  /\ reqs[r].pc = "done"
  /\ ProxyStep(r, NoRequest)
  /\ UNCHANGED << cache, fetched >>

\* the server's clock advances
TickServer ==
  /\ serverNow < MaxTicks * TimeStep
  /\ serverNow' = serverNow + TimeStep
  /\ UNCHANGED << exceptProxy, cache, reqs, fetched >>

\* no page is mounted: the state of the pages while only the routes run
PagesIdle ==
  /\ DEMO_MODE = TRUE /\ page = "none" /\ bountyNum = 0 /\ claimId = 0
  /\ chain = NoContract
  /\ InitReads
  /\ InitClient

InitProxy ==
  /\ PagesIdle
  /\ ProxyIdle
  /\ UploadIdle
  /\ ReadsIdle
  /\ FeedIdle
  /\ BatchIdle
  /\ ListingIdle
  /\ IpfsIdle
  /\ CreateIdle
  /\ ClicksIdle
  /\ ClaimedIdle
  /\ ActivityIdle

NextProxy ==
  \/ \E r \in RequestIds, cid \in CidParams : GET(r, cid)
  \/ \E r \in RequestIds : GET_params(r)
  \/ \E r \in RequestIds : GET_paramsRejected(r)
  \/ \E r \in RequestIds : GET_fetchRejected(r)
  \/ \E r \in RequestIds : GET_notOk(r)
  \/ \E r \in RequestIds : GET_ok(r)
  \/ \E r \in RequestIds : GET_jsonRejected(r)
  \/ \E r \in RequestIds, doc \in UNION { Docs(c) : c \in Cids } : GET_json(r, doc)
  \/ \E r \in RequestIds : GET_closed(r)
  \/ TickServer

SpecProxy == InitProxy /\ [][NextProxy]_vars

(* ---------------------------------------------------------------------- *)
(* The metadata proxy: properties                                         *)
(* ---------------------------------------------------------------------- *)
\* the order of the gateways
GatewayOrder ==
  << "https://gateway.pinata.cloud/ipfs",
     "https://ipfs.io/ipfs",
     "https://cloudflare-ipfs.com/ipfs" >>

\* C11: a GET without a fresh cache entry contacts the gateways in the order
\* gateway.pinata.cloud, ipfs.io, cloudflare-ipfs.com; gateway k+1 is contacted only
\* after gateway k failed; the first success ends the loop with 200 and that document;
\* 502 is answered only after all three failed, each contacted exactly once.
C11_GatewaysInOrderUntilFirstSuccess ==
  \A r \in RequestIds :
    LET q == reqs[r]
        n == Len(q.contacted)
        m == Len(q.outcomes)
    IN /\ n <= Len(GatewayOrder)
       /\ q.contacted = SubSeq(GatewayOrder, 1, n)
       /\ m <= n
       /\ \A k \in 1..(n - 1) : m >= k /\ q.outcomes[k] = "failed"
       /\ \A k \in 1..m :
            q.outcomes[k] = "ok"
              => k = n /\ q.pc = "done" /\ q.status = 200 /\ q.body \in Docs(q.cid)
       /\ (q.status = 200 /\ n > 0) => (m = n /\ q.outcomes[n] = "ok")
       /\ q.status = 502
            => /\ q.contacted = GatewayOrder
               /\ m = n
               /\ \A k \in 1..m : q.outcomes[k] = "failed"

\* one request answered 502 after three failures, another answered by the second gateway
C11_Witness ==
  \E r1, r2 \in RequestIds :
    /\ reqs[r1].status = 502 /\ Len(reqs[r1].contacted) = 3
    /\ reqs[r2].status = 200 /\ Len(reqs[r2].contacted) = 2

FiveMinutes == 5 * 60 * 1000

\* C12: the GET is a read-through cache keyed by cid with a TTL of five minutes: an
\* entry written less than five minutes ago is returned without contacting a gateway;
\* with no entry, or one five minutes old or older, the gateways are contacted, and a
\* success replaces the entry by the document with the current time.
C12_ReadThroughCache ==
  [][ \A r \in RequestIds :
        LET q == reqs[r]
            q2 == reqs'[r]
        IN /\ (q.pc = "params" /\ q2.pc # "params" /\ q.cid # "" /\ q2.status # 500)
                => IF /\ cache[q.cid] # NoEntry
                      /\ serverNow - cache[q.cid].timestamp < FiveMinutes
                   THEN /\ q2.status = 200 /\ q2.body = cache[q.cid].data
                        /\ q2.contacted = << >>
                        /\ cache' = cache
                   ELSE q2.status = 0 /\ q2.contacted # << >>
           /\ (q.pc = "json" /\ q2.status = 200)
                => cache'[q.cid] = [data |-> q2.body, timestamp |-> serverNow] ]_vars

\* a request served from an entry that has aged, while the other cid's entry is one
\* written at the five-minute mark or later
C12_Witness ==
  \E r \in RequestIds :
    /\ reqs[r].status = 200 /\ reqs[r].contacted = << >>
    /\ cache[reqs[r].cid].data = reqs[r].body
    /\ serverNow - cache[reqs[r].cid].timestamp = TimeStep
    /\ \E c \in Cids : cache[c] # NoEntry /\ cache[c].timestamp >= FiveMinutes

\* C13: GETs for the same uncached cid may interleave at any await, each fetching and
\* writing the cache: each such request answers 200 with a document fetched for its
\* cid; the cache holds one complete entry per cid, whose data is one of the documents
\* fetched for that cid; no entry carries another cid's document.
C13_ConcurrentRequestsHarmless ==
  /\ \A r \in RequestIds :
       LET q == reqs[r] IN
         /\ (q.pc = "done" /\ q.outcomes # << >> /\ q.outcomes[Len(q.outcomes)] = "ok")
              => q.status = 200
         /\ q.status = 200 => q.body \in (fetched \cap Docs(q.cid))
  /\ DOMAIN cache = Cids
  /\ \A c \in Cids :
       cache[c] # NoEntry
         => /\ cache[c].data \in (fetched \cap Docs(c))
            /\ cache[c].timestamp \in 0..serverNow

\* two requests for one cid, both past the cache check before either wrote the entry,
\* answered with two different documents of which the cache holds one
C13_Witness ==
  \E r1, r2 \in RequestIds :
    /\ r1 # r2 /\ reqs[r1].cid = reqs[r2].cid
    /\ serverNow = 0
    /\ reqs[r1].status = 200 /\ reqs[r1].contacted # << >>
    /\ reqs[r2].status = 200 /\ reqs[r2].contacted # << >>
    /\ reqs[r1].body # reqs[r2].body
    /\ cache[reqs[r1].cid].data = reqs[r2].body

\* whatever limit is fixed, take one cid more than it
CacheLimit == Cardinality(Cids) - 1

\* C14: the number of entries of the proxy's cache never exceeds a fixed limit that
\* does not depend on how many distinct cids have been requested.
C14_CacheBounded ==
  Cardinality({ c \in Cids : cache[c] # NoEntry }) <= CacheLimit

(* ---------------------------------------------------------------------- *)
(* The metadata upload: POST /api/ipfs/upload                             *)
(* ---------------------------------------------------------------------- *)
\* !metadata.title: undefined and "" are falsy
Falsy(field) == field \in {"absent", ""}

\* NextResponse.json(body, { status })
PostRespond(q, status, err, cid) ==
  [q EXCEPT !.pc = "done", !.status = status, !.error = err, !.cid = cid]

UploadStep(q) ==
  /\ post' = q
  /\ UNCHANGED << exceptUpload, env >>

\* a request arrives: the key check, then suspended at await request.json()
POST(body) ==
  /\ post.pc = "none"
  /\ pinned < MaxPins
  /\ UploadStep(IF ~env.PINATA_API_KEY \/ ~env.PINATA_SECRET_KEY
                THEN PostRespond([NoPost EXCEPT !.body = body], 500,
                                 "IPFS service not configured", "")
                ELSE [NoPost EXCEPT !.pc = "json", !.body = body])
  /\ UNCHANGED pinned

\* request.json() settled: a body that is no JSON rejects, reading .title of null
\* throws, both caught by the outer catch; then the validation, then the fetch is sent
POST_json ==
  /\ post.pc = "json"
  /\ IF post.body.json # "object"
     THEN UploadStep(PostRespond(post, 500, "Internal server error", ""))
          /\ UNCHANGED pinned
     ELSE IF Falsy(post.body.title) \/ Falsy(post.body.description)
     THEN UploadStep(PostRespond(post, 400, "Title and description are required", ""))
          /\ UNCHANGED pinned
     ELSE UploadStep([post EXCEPT !.pc = "fetch", !.sent = TRUE])
          /\ pinned' = pinned + 1

\* the fetch to the pinning service rejected: the outer catch
POST_fetchRejected ==
  /\ post.pc = "fetch"
  /\ UploadStep(PostRespond([post EXCEPT !.pinata = "threw"], 500,
                            "Internal server error", ""))
  /\ UNCHANGED pinned

\* the pinning service answered with a status that is not OK
POST_notOk ==
  /\ post.pc = "fetch"
  /\ UploadStep(PostRespond([post EXCEPT !.pinata = "notOk"], 500,
                            "Failed to upload to IPFS", ""))
  /\ UNCHANGED pinned

\* the pinning service answered OK: suspended at await response.json()
POST_ok ==
  /\ post.pc = "fetch"
  /\ UploadStep([post EXCEPT !.pc = "result", !.pinata = "ok"])
  /\ UNCHANGED pinned

\* response.json() resolved: { cid: result.IpfsHash }
POST_result ==
  /\ post.pc = "result"
  /\ UploadStep(PostRespond(post, 200, "", "QmNew"))
  /\ UNCHANGED pinned

\* response.json() rejected: the outer catch
POST_resultRejected ==
  /\ post.pc = "result"
  /\ UploadStep(PostRespond(post, 500, "Internal server error", ""))
  /\ UNCHANGED pinned

\* the response has been sent; the route serves the next request
POST_closed ==
  /\ post.pc = "done"
  /\ UploadStep(NoPost)
  /\ UNCHANGED pinned

InitUpload ==
  /\ PagesIdle
  /\ ProxyIdle
  /\ env \in [{"PINATA_API_KEY", "PINATA_SECRET_KEY"} -> BOOLEAN]
  /\ post = NoPost
  /\ pinned = 0
  /\ ReadsIdle
  /\ FeedIdle
  /\ BatchIdle
  /\ ListingIdle
  /\ IpfsIdle
  /\ CreateIdle
  /\ ClicksIdle
  /\ ClaimedIdle
  /\ ActivityIdle

NextUpload ==
  \/ \E body \in Bodies : POST(body)
  \/ POST_json
  \/ POST_fetchRejected \/ POST_notOk \/ POST_ok
  \/ POST_result \/ POST_resultRejected
  \/ POST_closed

SpecUpload == InitUpload /\ [][NextUpload]_vars

\* the body carries no non-empty title or no non-empty description
LacksTitleOrDescription(body) ==
  \/ body.json # "object"
  \/ body.title \in {"absent", ""}
  \/ body.description \in {"absent", ""}

\* C15: the upload POST answers 400 whenever the body lacks a non-empty title or a
\* non-empty description, and then sends nothing to the pinning service; it answers
\* 200 with a cid only when the pinning service answered OK, and 500 when the pinning
\* service fails or the API keys are not configured.
C15_UploadStatusCodes ==
  post.pc = "done"
    => /\ LacksTitleOrDescription(post.body) => (post.status = 400 /\ ~post.sent)
       /\ post.status = 200 => (post.pinata = "ok" /\ post.cid # "")
       /\ (~LacksTitleOrDescription(post.body)
             /\ (post.pinata \in {"threw", "notOk"}
                   \/ ~env.PINATA_API_KEY \/ ~env.PINATA_SECRET_KEY))
            => post.status = 500

(* ---------------------------------------------------------------------- *)
(* useBounty in live mode: seven reads and the metadata query             *)
(* ---------------------------------------------------------------------- *)
\* the bounty the hook is pointed at, as it is on chain
OnChain ==
  [issuer |-> OTHER_ADDR, metadataURI |-> "ipfs://QmA", state |-> VOTING,
   joinable |-> TRUE, totalStaked |-> 5, getClaimsCount |-> 3,
   currentVote |-> VoteTuple(1, 2, 1, 1, 1)]

\* x ?? d
OrDefault(read, d) == IF read.loaded THEN read.val ELSE d

\* useQuery's isLoading: a disabled query is not loading
isLoadingMetadata == metaQuery = "loading"

\* useBounty(address).isLoading
useBounty_isLoading ==
  \/ ~reads["issuer"].loaded
  \/ ~reads["state"].loaded
  \/ ~reads["totalStaked"].loaded
  \/ isLoadingMetadata

\* useBounty(address).bounty; present is FALSE for null
useBounty_bounty ==
  [present |-> reads["issuer"].loaded,
   issuer |-> OrDefault(reads["issuer"], ""),
   metadataURI |-> OrDefault(reads["metadataURI"], ""),
   state |-> OrDefault(reads["state"], 0),
   joinable |-> OrDefault(reads["joinable"], FALSE),
   totalStaked |-> OrDefault(reads["totalStaked"], 0),
   claimsCount |-> OrDefault(reads["getClaimsCount"], 0),
   metadata |-> metaQuery = "success",
   currentVote |-> OrDefault(reads["currentVote"], NoVote)]

\* one of the reads returns; the metadata query is enabled by a metadataURI
ReadReturns(n) ==
  /\ ~reads[n].loaded
  /\ reads' = [reads EXCEPT ![n] = [loaded |-> TRUE, val |-> OnChain[n]]]
  /\ metaQuery' = IF n = "metadataURI" THEN "loading" ELSE metaQuery
  /\ UNCHANGED exceptReads

\* fetchFromIPFS resolved
MetadataFetched ==
  /\ metaQuery = "loading"
  /\ metaQuery' = "success"
  /\ UNCHANGED << exceptReads, reads >>

\* fetchFromIPFS rejected at every gateway
MetadataFailed ==
  /\ metaQuery = "loading"
  /\ metaQuery' = "error"
  /\ UNCHANGED << exceptReads, reads >>

InitReadsOfBounty ==
  /\ PagesIdle
  /\ ProxyIdle
  /\ UploadIdle
  /\ ReadsIdle
  /\ FeedIdle
  /\ BatchIdle
  /\ ListingIdle
  /\ IpfsIdle
  /\ CreateIdle
  /\ ClicksIdle
  /\ ClaimedIdle
  /\ ActivityIdle

NextReads ==
  \/ \E n \in ReadNames : ReadReturns(n)
  \/ MetadataFetched
  \/ MetadataFailed

SpecReads == InitReadsOfBounty /\ [][NextReads]_vars

\* C16: useBounty reports isLoading = false only when all seven reads and the
\* metadata fetch have completed, whatever their order of completion; no field of a
\* ready snapshot is a default standing in for a read still pending.
C16_ReadyOnlyWhenAllReadsDone ==
  ~useBounty_isLoading
    => /\ \A n \in ReadNames : reads[n].loaded
       /\ metaQuery \in {"success", "error"}
       /\ useBounty_bounty.joinable = OnChain.joinable
       /\ useBounty_bounty.claimsCount = OnChain.getClaimsCount
       /\ useBounty_bounty.currentVote = OnChain.currentVote
       /\ useBounty_bounty.metadataURI = OnChain.metadataURI

(* ---------------------------------------------------------------------- *)
(* useActivityFeed: the effect and its fetchActivities runs               *)
(* ---------------------------------------------------------------------- *)
\* the event kinds fetched for each bounty, in the order of their try blocks
BOUNTY_EVENTS == << "joined", "claimSubmitted", "voteStarted", "paid", "cancelled" >>

\* feed.activities: 0 is [], MOCK is the fixture list, r > 0 the list run r built;
\* feed.error: 0 is null, r > 0 the error run r caught
MOCK == 0 - 1

\* a guard that lets a superseded run through
notCancelled_always(r) == TRUE

\* if (!cancelled)
notCancelled(r) == ~runs[r].cancelled

\* a call of a state setter by run r
Call(r, setter) ==
  [run |-> r, setter |-> setter, cancelled |-> runs[r].cancelled,
   latest |-> r = started]

\* run r leaves the try block: by the end ("sorted"), by a throw ("threw") or by a
\* return out of a loop ("returned"); then the finally block
Leave(r, how) ==
  /\ runs' = [runs EXCEPT ![r] = [pc |-> "finished", kind |-> 0, cancelled |-> @.cancelled]]
  /\ feed' = IF notCancelled(r)
             THEN [feed EXCEPT !.activities = IF how = "sorted" THEN r ELSE @,
                               !.error = IF how = "threw" THEN r ELSE @,
                               !.isLoading = FALSE]
             ELSE feed
  /\ calls' = calls \cup
       (IF notCancelled(r)
        THEN {Call(r, "setIsLoading")}
             \cup (IF how = "sorted" THEN {Call(r, "setActivities")} ELSE {})
             \cup (IF how = "threw" THEN {Call(r, "setError")} ELSE {})
        ELSE {})
  /\ UNCHANGED << exceptFeed, started >>

\* run r goes on to await something
Await(r, pc, kind) ==
  /\ runs' = [runs EXCEPT ![r] = [pc |-> pc, kind |-> kind, cancelled |-> @.cancelled]]
  /\ UNCHANGED << exceptFeed, feed, started, calls >>

\* the next try block of the bounty loop; after the last one, the sort
NextKind(r) ==
  IF runs[r].kind < Len(BOUNTY_EVENTS)
  THEN Await(r, "bountyLogs", runs[r].kind + 1)
  ELSE Leave(r, "sorted")

\* the effect runs, on mount or when publicClient or limit changed: the cleanup of
\* the run before, then, outside demo mode, fetchActivities up to its first await
Effect ==
  /\ started < MaxRuns
  /\ ~feed.mounted => started = 0
  /\ feed.mounted => ~DEMO_MODE
  /\ IF DEMO_MODE
     THEN /\ feed' = [mounted |-> TRUE, activities |-> MOCK, isLoading |-> FALSE,
                      error |-> 0]
          /\ UNCHANGED << runs, started, calls >>
     ELSE LET r == started + 1 IN
          /\ started' = r
          /\ runs' = [ x \in RunIds |->
                         IF x = r THEN [pc |-> "getBlockNumber", kind |-> 0,
                                        cancelled |-> FALSE]
                         ELSE IF x = started THEN [runs[x] EXCEPT !.cancelled = TRUE]
                         ELSE runs[x] ]
          /\ feed' = [feed EXCEPT !.mounted = TRUE, !.isLoading = TRUE, !.error = 0]
          /\ calls' = calls \cup
               { [run |-> r, setter |-> st, cancelled |-> FALSE, latest |-> TRUE]
                 : st \in {"setIsLoading", "setError"} }
  /\ UNCHANGED exceptFeed

\* the component unmounts: the cleanup of the last run
Unmount ==
  /\ feed.mounted
  /\ feed' = [feed EXCEPT !.mounted = FALSE]
  /\ runs' = [ x \in RunIds |->
                 IF x = started THEN [runs[x] EXCEPT !.cancelled = TRUE] ELSE runs[x] ]
  /\ UNCHANGED << exceptFeed, started, calls >>

\* getBlockNumber resolved: getLogs for the factory's created events is sent
BlockNumberResolved(r) ==
  /\ runs[r].pc = "getBlockNumber"
  /\ Await(r, "createdLogs", 0)

\* getLogs resolved with n created events; the loops start with if (cancelled) return
CreatedLogsResolved(r, n) ==
  /\ runs[r].pc = "createdLogs"
  /\ IF n = 0 THEN Leave(r, "sorted")
     ELSE IF runs[r].cancelled THEN Leave(r, "returned")
     ELSE Await(r, "createdBlock", 0)

\* getBlock resolved for the created event; the bounty loop starts with
\* if (cancelled) return
CreatedBlockResolved(r) ==
  /\ runs[r].pc = "createdBlock"
  /\ IF runs[r].cancelled THEN Leave(r, "returned")
     ELSE Await(r, "bountyLogs", 1)

\* getBlockNumber, the factory's getLogs or its getBlock rejected: the outer catch
OuterReadRejected(r) ==
  /\ runs[r].pc \in {"getBlockNumber", "createdLogs", "createdBlock"}
  /\ Leave(r, "threw")

\* a bounty's getLogs resolved with n events of the current kind
BountyLogsResolved(r, n) ==
  /\ runs[r].pc = "bountyLogs"
  /\ IF n = 0 THEN NextKind(r)
     ELSE IF runs[r].cancelled THEN Leave(r, "returned")
     ELSE Await(r, "bountyBlock", runs[r].kind)

\* getBlock resolved for a bounty's event
BountyBlockResolved(r) ==
  /\ runs[r].pc = "bountyBlock"
  /\ NextKind(r)

\* a bounty's getLogs or getBlock rejected: the inner catch ignores it
BountyReadRejected(r) ==
  /\ runs[r].pc \in {"bountyLogs", "bountyBlock"}
  /\ NextKind(r)

InitFeed ==
  /\ DEMO_MODE \in BOOLEAN
  /\ page = "none" /\ bountyNum = 0 /\ claimId = 0
  /\ chain = NoContract
  /\ InitReads
  /\ InitClient
  /\ ProxyIdle
  /\ UploadIdle
  /\ ReadsIdle
  /\ FeedIdle
  /\ BatchIdle
  /\ ListingIdle
  /\ IpfsIdle
  /\ CreateIdle
  /\ ClicksIdle
  /\ ClaimedIdle
  /\ ActivityIdle

NextFeed ==
  \/ Effect
  \/ Unmount
  \/ \E r \in RunIds : BlockNumberResolved(r)
  \/ \E r \in RunIds, n \in 0..1 : CreatedLogsResolved(r, n)
  \/ \E r \in RunIds : CreatedBlockResolved(r)
  \/ \E r \in RunIds : OuterReadRejected(r)
  \/ \E r \in RunIds, n \in 0..1 : BountyLogsResolved(r, n)
  \/ \E r \in RunIds : BountyBlockResolved(r)
  \/ \E r \in RunIds : BountyReadRejected(r)

SpecFeed == InitFeed /\ [][NextFeed]_vars

\* C17: once the effect's cleanup has run, the superseded fetchActivities run calls
\* none of setActivities, setError and setIsLoading, whatever await it had reached;
\* only the most recent run commits.
C17_SupersededRunNeverCommits ==
  \A c \in calls : ~c.cancelled /\ c.latest

\* a run superseded while it was waiting has finished, and the run after it has
\* committed its list
C17_Witness ==
  \E r \in RunIds :
    /\ runs[r].cancelled /\ runs[r].pc = "finished"
    /\ started # r /\ feed.activities = started
    /\ \E c \in calls : c.run = started /\ c.setter = "setActivities"

(* ---------------------------------------------------------------------- *)
(* useBountiesData: one multicall of six reads per bounty                 *)
(* ---------------------------------------------------------------------- *)
\* the reads made for each address, in the order of the contracts array
BATCH_READS ==
  << "issuer", "metadataURI", "state", "joinable", "totalStaked", "getClaimsCount" >>

\* bounty addresses, numbered; issuers and URIs are numbered too, 0 is ""
Addresses == 1..MaxBounties

\* what the contract at address a returns for a read
ChainValue(a, fn) ==
  CASE fn = "issuer"         -> 100 + a
    [] fn = "metadataURI"    -> 200 + a
    [] fn = "state"          -> a % 4
    [] fn = "joinable"       -> a % 2 = 1
    [] fn = "totalStaked"    -> 10 * a
    [] fn = "getClaimsCount" -> a

\* the sequences of distinct addresses
AddressLists ==
  UNION { { q \in [1..n -> Addresses] : \A x, y \in 1..n : x # y => q[x] # q[y] }
          : n \in 0..MaxBounties }

\* a stride that is one short
baseIndex_five(i) == (i - 1) * 5

\* const baseIndex = i * 6, for positions counted from 1
baseIndex(i) == (i - 1) * Len(BATCH_READS)

\* data[k]?.result
ResultAt(d, k) ==
  IF k \in DOMAIN d.results /\ d.results[k].ok
  THEN [defined |-> TRUE, val |-> d.results[k].result]
  ELSE [defined |-> FALSE, val |-> 0]

\* x ?? d
Coalesce(x, d) == IF x.defined THEN x.val ELSE d

\* the object pushed for addresses[i]
BountyData(addrs, d, i) ==
  [address |-> addrs[i],
   issuer |-> ResultAt(d, baseIndex(i) + 1).val,
   metadataURI |-> Coalesce(ResultAt(d, baseIndex(i) + 2), 0),
   state |-> Coalesce(ResultAt(d, baseIndex(i) + 3), 0),
   joinable |-> Coalesce(ResultAt(d, baseIndex(i) + 4), FALSE),
   totalStaked |-> Coalesce(ResultAt(d, baseIndex(i) + 5), 0),
   claimsCount |-> Coalesce(ResultAt(d, baseIndex(i) + 6), 0)]

\* the for loop from index i on
RECURSIVE ParseFrom(_, _, _)
ParseFrom(addrs, d, i) ==
  IF i > Len(addrs) THEN << >>
  ELSE (IF ResultAt(d, baseIndex(i) + 1).defined
        THEN << BountyData(addrs, d, i) >>
        ELSE << >>) \o ParseFrom(addrs, d, i + 1)

\* useBountiesData(addresses).bounties
useBountiesData(addrs, d) == IF d.defined THEN ParseFrom(addrs, d, 1) ELSE << >>

\* the positions of the contracts array
Positions(addrs) == 1..(Len(addrs) * Len(BATCH_READS))

\* the multicall's result when the reads at the failed positions fail
MulticallResult(addrs, failed) ==
  [defined |-> TRUE,
   results |->
     [ k \in Positions(addrs) |->
         LET i == ((k - 1) \div Len(BATCH_READS)) + 1
             fn == BATCH_READS[((k - 1) % Len(BATCH_READS)) + 1]
         IN IF k \in failed
            THEN [ok |-> FALSE, result |-> 0, fn |-> fn]
            ELSE [ok |-> TRUE, result |-> ChainValue(addrs[i], fn), fn |-> fn] ]]

\* the sets of reads that may fail together
FailedSets(addrs) == { f \in SUBSET Positions(addrs) : Cardinality(f) <= MaxFailed }

\* useReadContracts settles: each read has succeeded or failed; the hook renders
ReadContractsSettled ==
  /\ ~data.defined
  /\ Len(addresses) > 0
  /\ \E failed \in FailedSets(addresses) :
       /\ data' = MulticallResult(addresses, failed)
       /\ bounties' = useBountiesData(addresses, data')
  /\ UNCHANGED << exceptBatch, addresses >>

\* the listing is refetched
Refetch ==
  /\ data.defined
  /\ data' = [defined |-> FALSE, results |-> << >>]
  /\ bounties' = useBountiesData(addresses, data')
  /\ UNCHANGED << exceptBatch, addresses >>

InitBatch ==
  /\ PagesIdle
  /\ ProxyIdle
  /\ UploadIdle
  /\ ReadsIdle
  /\ FeedIdle
  /\ addresses \in AddressLists
  /\ data = [defined |-> FALSE, results |-> << >>]
  /\ bounties = << >>
  /\ ListingIdle
  /\ IpfsIdle
  /\ CreateIdle
  /\ ClicksIdle
  /\ ClaimedIdle
  /\ ActivityIdle

NextBatch ==
  \/ ReadContractsSettled
  \/ Refetch

SpecBatch == InitBatch /\ [][NextBatch]_vars

\* the six results of the j-th address: positions 6(j-1)+1 .. 6(j-1)+6
OwnResult(j, k) == data.results[6 * (j - 1) + k]

\* what the list must hold for the j-th address
OwnProjection(j) ==
  [address |-> addresses[j],
   issuer |-> OwnResult(j, 1).result,
   metadataURI |-> IF OwnResult(j, 2).ok THEN OwnResult(j, 2).result ELSE 0,
   state |-> IF OwnResult(j, 3).ok THEN OwnResult(j, 3).result ELSE 0,
   joinable |-> IF OwnResult(j, 4).ok THEN OwnResult(j, 4).result ELSE FALSE,
   totalStaked |-> IF OwnResult(j, 5).ok THEN OwnResult(j, 5).result ELSE 0,
   claimsCount |-> IF OwnResult(j, 6).ok THEN OwnResult(j, 6).result ELSE 0]

\* C18: in useBountiesData over N addresses a failed read of bounty i leaves the
\* projection of every other bounty j alone: each bounty whose issuer read succeeded
\* is in the list once, with its own address and the results at its own six
\* positions; a bounty whose issuer read failed is left out, and nothing shifts.
C18_FailedReadLeavesOthersAlone ==
  data.defined
    => /\ \A j \in 1..Len(addresses) :
            IF OwnResult(j, 1).ok
            THEN Cardinality({ x \in DOMAIN bounties :
                                 bounties[x] = OwnProjection(j) }) = 1
            ELSE \A x \in DOMAIN bounties : bounties[x].address # addresses[j]
       /\ \A x \in DOMAIN bounties :
            \E j \in 1..Len(addresses) :
              OwnResult(j, 1).ok /\ bounties[x] = OwnProjection(j)
       /\ \A x, y \in DOMAIN bounties :
            x < y => \E i, j \in 1..Len(addresses) :
                       i < j /\ bounties[x].address = addresses[i]
                             /\ bounties[y].address = addresses[j]

\* the first bounty's issuer read failed and one of the second bounty's other reads
\* failed: the list is the second bounty alone, with a default in that field
C18_Witness ==
  /\ data.defined /\ Len(addresses) = 2
  /\ ~OwnResult(1, 1).ok
  /\ OwnResult(2, 1).ok /\ ~OwnResult(2, 5).ok /\ OwnResult(2, 3).ok
  /\ Len(bounties) = 1
  /\ bounties[1].address = addresses[2]
  /\ bounties[1].state = ChainValue(addresses[2], "state")

(* ---------------------------------------------------------------------- *)
(* useBounties: the bounties-metadata query (useClaims' claims-proof      *)
(* query has the same shape, with proofURI for metadataURI)               *)
(* ---------------------------------------------------------------------- *)
\* fetchFromIPFS: the URL the document is fetched from
fetchTarget(uri) ==
  CASE uri = "ipfs://QmA"                  -> "/api/ipfs/QmA"
    [] uri = "QmA"                         -> "/api/ipfs/QmA"
    [] uri = "https://gw.example/ipfs/QmB" -> "/api/ipfs/QmB"
    [] uri = "https://host.example/b.json" -> "https://host.example/b.json"
    [] OTHER                               -> ""

\* the document served at a URL
DocumentAt(url) == "doc:" \o url

\* queryFn up to its awaits: a callback per item; an item without URI is skipped,
\* for any other fetchFromIPFS is called and sends its request
QueryStarts ==
  /\ queryState = "idle"
  /\ Len(items) > 0
  /\ queryState' = IF \E i \in DOMAIN items : items[i] # "" THEN "loading" ELSE "success"
  /\ fetches' = [i \in DOMAIN items |-> IF items[i] = "" THEN "skipped" ELSE "pending"]
  /\ map' = [u \in URIs |-> "unset"]
  /\ fetchCount' = [u \in URIs |->
                      Cardinality({ i \in DOMAIN items : items[i] = u /\ u # "" })]
  /\ UNCHANGED << exceptListing, items >>

\* Promise.all resolves once no callback is pending
Settled(f) == IF \A i \in DOMAIN f : f[i] # "pending" THEN "success" ELSE "loading"

\* item i's fetchFromIPFS resolved with the document: map.set(uri, metadata)
FetchResolved(i) ==
  /\ i \in DOMAIN items
  /\ queryState = "loading" /\ fetches[i] = "pending"
  /\ fetches' = [fetches EXCEPT ![i] = "ok"]
  /\ map' = [map EXCEPT ![items[i]] = DocumentAt(fetchTarget(items[i]))]
  /\ queryState' = Settled(fetches')
  /\ UNCHANGED << exceptListing, items, fetchCount >>

\* item i's fetchFromIPFS resolved with null (the proxy answered 502, or the fetch
\* threw): map.set(uri, null)
FetchFailed(i) ==
  /\ i \in DOMAIN items
  /\ queryState = "loading" /\ fetches[i] = "pending"
  /\ fetches' = [fetches EXCEPT ![i] = "null"]
  /\ map' = [map EXCEPT ![items[i]] = "null"]
  /\ queryState' = Settled(fetches')
  /\ UNCHANGED << exceptListing, items, fetchCount >>

\* metadataMap?.get(bounty.metadataURI) ?? null
metadataOf(i) ==
  IF queryState = "success" /\ map[items[i]] # "unset" THEN map[items[i]] ELSE "null"

ItemLists == UNION { [1..n -> URIs] : n \in 1..MaxItems }

InitListing ==
  /\ PagesIdle
  /\ ProxyIdle
  /\ UploadIdle
  /\ ReadsIdle
  /\ FeedIdle
  /\ BatchIdle
  /\ items \in ItemLists
  /\ fetches = [i \in DOMAIN items |-> "skipped"]
  /\ map = [u \in URIs |-> "unset"]
  /\ queryState = "idle"
  /\ fetchCount = [u \in URIs |-> 0]
  /\ IpfsIdle
  /\ CreateIdle
  /\ ClicksIdle
  /\ ClaimedIdle
  /\ ActivityIdle

NextListing ==
  \/ QueryStarts
  \/ \E i \in 1..MaxItems : FetchResolved(i)
  \/ \E i \in 1..MaxItems : FetchFailed(i)

SpecListing == InitListing /\ [][NextListing]_vars

\* C19: when the resolution of one item's URI fails at every gateway the query does
\* not throw: that item has metadata (proof) null and every other item has its own
\* resolved metadata.
C19_FailedItemIsNullOthersResolved ==
  queryState = "success"
    => \A i \in DOMAIN items :
         /\ fetches[i] = "null" => metadataOf(i) = "null"
         /\ fetches[i] = "ok" => metadataOf(i) = DocumentAt(fetchTarget(items[i]))

\* C20: while the metadata of a listing's bounties (the proofs of its claims) is
\* resolved, each distinct URI is fetched at most once, also when items share it.
C20_EachUriFetchedOnce ==
  \A u \in URIs : fetchCount[u] <= 1

(* ---------------------------------------------------------------------- *)
(* src/lib/ipfs.ts: the helpers called on one reference string            *)
(* ---------------------------------------------------------------------- *)
\* fetchFromIPFS is called with the string and with "ipfs://" + the string
Call_fetchFromIPFS ==
  /\ ~ipfsOut.fetched
  /\ ipfsOut' = [ipfsOut EXCEPT !.fetched = TRUE,
                                !.raw = fetchFromIPFS(ref),
                                !.prefixed = fetchFromIPFS(<< "ipfs://" >> \o ref)]
  /\ UNCHANGED << exceptIpfs, ref >>

\* toIPFSUri is called with the string, and again with what it returned
Call_toIPFSUri ==
  /\ ~ipfsOut.uriDone
  /\ ipfsOut' = [ipfsOut EXCEPT !.uriDone = TRUE,
                                !.uri = toIPFSUri(ref),
                                !.uriTwice = toIPFSUri(toIPFSUri(ref))]
  /\ UNCHANGED << exceptIpfs, ref >>

\* getIPFSUrl is called with the string and with toIPFSUri of it
Call_getIPFSUrl ==
  /\ ~ipfsOut.urlDone
  /\ ipfsOut' = [ipfsOut EXCEPT !.urlDone = TRUE,
                                !.url = getIPFSUrl(ref),
                                !.urlOfUri = getIPFSUrl(toIPFSUri(ref))]
  /\ UNCHANGED << exceptIpfs, ref >>

InitIpfs ==
  /\ PagesIdle
  /\ ProxyIdle
  /\ UploadIdle
  /\ ReadsIdle
  /\ FeedIdle
  /\ BatchIdle
  /\ ListingIdle
  /\ ref \in Strings
  /\ ipfsOut = NothingCalled
  /\ CreateIdle
  /\ ClicksIdle
  /\ ClaimedIdle
  /\ ActivityIdle

NextIpfs ==
  \/ Call_fetchFromIPFS
  \/ Call_toIPFSUri
  \/ Call_getIPFSUrl

SpecIpfs == InitIpfs /\ [][NextIpfs]_vars

\* a content identifier: letters and digits, at least one
IsContentIdentifier(str) == str # << >> /\ \A i \in 1..Len(str) : str[i] = "Qm"

\* C21: for every content identifier c, fetchFromIPFS(c) and fetchFromIPFS("ipfs://" + c)
\* send the same proxy request /api/ipfs/<c>; toIPFSUri is idempotent and
\* getIPFSUrl(toIPFSUri(c)) = getIPFSUrl(c).
C21_BothFormsOneIdentifier ==
  IsContentIdentifier(ref)
    => /\ ipfsOut.fetched
            => /\ ipfsOut.raw = [kind |-> "proxy", url |-> << "/api/ipfs/" >> \o ref]
               /\ ipfsOut.prefixed = ipfsOut.raw
       /\ ipfsOut.uriDone
            => (ipfsOut.uriTwice = ipfsOut.uri /\ ipfsOut.uri = << "ipfs://" >> \o ref)
       /\ ipfsOut.urlDone
            => (ipfsOut.urlOfUri = ipfsOut.url /\ ipfsOut.url # << >>)

\* all three helpers have been called with a content identifier
C21_Witness ==
  /\ IsContentIdentifier(ref) /\ Len(ref) = 2
  /\ ipfsOut.fetched /\ ipfsOut.uriDone /\ ipfsOut.urlDone
  /\ ipfsOut.prefixed.kind = "proxy"

(* ---------------------------------------------------------------------- *)
(* Vote weight and funders of the fixture bounties                        *)
(* ---------------------------------------------------------------------- *)
\* useBounty(address).bounty.currentVote in demo mode: every VOTING fixture
\* bounty gets the same round (yes 1.5 ETH, no 0.5 ETH, one hour left)
useBounty_currentVote ==
  IF DEMO_MODE /\ IsFixtureBounty /\ MOCK_BOUNTIES[bountyNum].state = VOTING
  THEN [present |-> TRUE, v |-> VoteTuple(0, 150, 50, now + 3600, 1)]
  ELSE [present |-> FALSE, v |-> NoVote]

\* the page shows a VOTING fixture bounty
OnVotingFixture ==
  DEMO_MODE /\ IsFixtureBounty /\ MOCK_BOUNTIES[bountyNum].state = VOTING

\* C22: every vote round exposed for a VOTING fixture bounty, by useBounty and
\* by useVoteState, has yes + no at most the bounty's totalStaked
C22_VoteWeightWithinStake ==
  OnVotingFixture =>
    /\ useBounty_currentVote.present =>
         useBounty_currentVote.v.yes + useBounty_currentVote.v.no
           <= MOCK_BOUNTIES[bountyNum].totalStaked
    /\ useVoteState.present =>
         useVoteState.v.yes + useVoteState.v.no
           <= MOCK_BOUNTIES[bountyNum].totalStaked

\* useFunders(bountyAddress).funders once the effect has run
useFunders ==
  IF DEMO_MODE
  THEN IF bountyNum \in 1..Len(MOCK_FUNDERS) THEN MOCK_FUNDERS[bountyNum] ELSE {}
  ELSE {}

\* C23: a fixture bounty with more than one funder is joinable, and a
\* non-joinable fixture bounty has at most one funder, its issuer
C23_OnlyJoinableHasCoFunders ==
  (DEMO_MODE /\ IsFixtureBounty) =>
    /\ Cardinality(useFunders) > 1 => MOCK_BOUNTIES[bountyNum].joinable
    /\ ~MOCK_BOUNTIES[bountyNum].joinable =>
         /\ Cardinality(useFunders) <= 1
         /\ \A f \in useFunders : f[1] = MOCK_BOUNTIES[bountyNum].issuer

(* ---------------------------------------------------------------------- *)
(* CreateBountyPage.handleSubmit: upload first, then the write            *)
(* ---------------------------------------------------------------------- *)
\* a step that submits the createBounty write
CreateWriteSubmitted ==
  /\ write.status # "pending"
  /\ write'.status = "pending" /\ write'.fn = "createBounty"

\* C24: the createBounty write is submitted only by the step in which
\* uploadToIPFS resolved with a cid, with metadataURI = toIPFSUri(that cid); when
\* the wallet connection or the upload fails no write is submitted, the error is
\* set and isUploading is false; isUploading is false whenever the handler is done.
C24_WriteOnlyAfterUpload ==
  /\ [][ CreateWriteSubmitted =>
           /\ submitPc = "uploading"
           /\ uploaded' \in UploadedCids
           /\ metadataURI' = toIPFSUri(uploaded') ]_vars
  /\ [][ (submitPc \in {"connecting", "uploading"} /\ submitPc' = "idle"
            /\ ~CreateWriteSubmitted)
         => /\ write' = write
            /\ error' # ""
            /\ ~isUploading' ]_vars
  /\ [](submitPc = "idle" => ~isUploading)

\* a createBounty write is pending for the cid the upload resolved with
C24_Witness ==
  /\ write.status = "pending" /\ write.fn = "createBounty"
  /\ uploaded = << "Qm" >>
  /\ metadataURI = << "ipfs://", "Qm" >>
  /\ ~isUploading

(* ---------------------------------------------------------------------- *)
(* Write buttons: a handler awaits connectAsync (and the upload, on the   *)
(* create page) before it calls writeContract                             *)
(* ---------------------------------------------------------------------- *)
\* isPending of useWriteContract: the reported write awaits the wallet
clicks_isWriting == current # 0 /\ txs[current] = "pending"
\* isLoading of useWaitForTransactionReceipt({hash: txHash})
clicks_isConfirming == current # 0 /\ txs[current] = "confirming"

\* disabled={isSubmitting}: isUploading || isWriting || isConfirming on the create
\* page, isWriting || isConfirming on the bounty and claim pages
clicks_isSubmitting ==
  IF onPage = "create"
  THEN uploadingNow \/ clicks_isWriting \/ clicks_isConfirming
  ELSE clicks_isWriting \/ clicks_isConfirming

\* writeContract(...) of click k: the mutation starts and the hook reports it
writeContract(k) ==
  /\ txs' = [txs EXCEPT ![k] = "pending"]
  /\ current' = k
  /\ handlers' = [handlers EXCEPT ![k] = "done"]

\* an enabled write button is clicked: the handler runs to its first await
Click(k) ==
  /\ handlers[k] = "none" /\ txs[k] = "none"
  /\ ~clicks_isSubmitting
  /\ IF onPage = "create"
     THEN /\ uploadingNow' = TRUE
          /\ handlers' = [handlers EXCEPT ![k] = IF connected THEN "uploading"
                                                 ELSE "connecting"]
          /\ UNCHANGED << txs, current >>
     ELSE /\ UNCHANGED uploadingNow
          /\ IF connected
             THEN writeContract(k)
             ELSE /\ handlers' = [handlers EXCEPT ![k] = "connecting"]
                  /\ UNCHANGED << txs, current >>
  /\ UNCHANGED << exceptClicks, onPage, connected >>

\* connectAsync of click k resolves: the create page uploads, the others write
ConnectResolved(k) ==
  /\ handlers[k] = "connecting"
  /\ connected' = TRUE
  /\ IF onPage = "create"
     THEN /\ handlers' = [handlers EXCEPT ![k] = "uploading"]
          /\ UNCHANGED << txs, current >>
     ELSE writeContract(k)
  /\ UNCHANGED << exceptClicks, onPage, uploadingNow >>

\* connectAsync or uploadToIPFS of click k rejects: the catch block
AwaitRejected(k) ==
  /\ handlers[k] \in {"connecting", "uploading"}
  /\ handlers' = [handlers EXCEPT ![k] = "done"]
  /\ uploadingNow' = IF onPage = "create" THEN FALSE ELSE uploadingNow
  /\ UNCHANGED << exceptClicks, onPage, connected, txs, current >>

\* uploadToIPFS of click k resolves: setIsUploading(false); writeContract(...)
UploadResolved(k) ==
  /\ handlers[k] = "uploading"
  /\ uploadingNow' = FALSE
  /\ writeContract(k)
  /\ UNCHANGED << exceptClicks, onPage, connected >>

\* the wallet signs the write of click k
Signed(k) ==
  /\ txs[k] = "pending"
  /\ txs' = [txs EXCEPT ![k] = "confirming"]
  /\ UNCHANGED << exceptClicks, onPage, connected, handlers, current, uploadingNow >>

\* the write of click k fails in the wallet or is mined; the effects on writeError
\* and on the receipt call resetWrite() when it is the write the hook reports
Finished(k, how) ==
  /\ \/ how = "failed" /\ txs[k] = "pending"
     \/ how = "mined" /\ txs[k] = "confirming"
  /\ txs' = [txs EXCEPT ![k] = how]
  /\ current' = IF current = k THEN 0 ELSE current
  /\ UNCHANGED << exceptClicks, onPage, connected, handlers, uploadingNow >>

InitClicks ==
  /\ PagesIdle
  /\ ProxyIdle /\ UploadIdle /\ ReadsIdle /\ FeedIdle /\ BatchIdle /\ ListingIdle
  /\ IpfsIdle /\ CreateIdle
  /\ onPage \in {"create", "detail"}
  /\ connected \in BOOLEAN
  /\ handlers = [k \in ClickIds |-> "none"]
  /\ txs = [k \in ClickIds |-> "none"]
  /\ current = 0
  /\ uploadingNow = FALSE
  /\ ClaimedIdle
  /\ ActivityIdle

NextClicks ==
  \/ \E k \in ClickIds : Click(k)
  \/ \E k \in ClickIds : ConnectResolved(k)
  \/ \E k \in ClickIds : AwaitRejected(k)
  \/ \E k \in ClickIds : UploadResolved(k)
  \/ \E k \in ClickIds : Signed(k)
  \/ \E k \in ClickIds, how \in {"failed", "mined"} : Finished(k, how)

SpecClicks == InitClicks /\ [][NextClicks]_vars

\* the writes submitted that have neither succeeded nor failed
InFlight == { k \in ClickIds : txs[k] \in {"pending", "confirming"} }

\* C25: on the create, bounty and claim pages at most one contract write is in
\* flight at any time: no second write is started until the first has succeeded
\* or failed.
C25_AtMostOneWriteInFlight ==
  Cardinality(InFlight) <= 1

(* ---------------------------------------------------------------------- *)
(* The metadata proxy: what a failed GET leaves behind                    *)
(* ---------------------------------------------------------------------- *)
FailureStatuses == {400, 502, 500}

\* request r has just been answered with a failure status
AnsweredWithFailure(r) ==
  reqs[r].pc # "done" /\ reqs'[r].pc = "done" /\ reqs'[r].status \in FailureStatuses

\* C26: the proxy never caches a failure: a GET that ends with 400, 502 or 500
\* leaves the cache unchanged; the entry of cid c is written only by a request for c
\* whose gateway answered OK with a body that parsed, and holds that document; so a
\* request for a cid whose earlier request failed contacts the gateways again.
C26_FailureNeverCached ==
  [][ /\ \A r \in RequestIds : AnsweredWithFailure(r) => cache' = cache
      /\ \A c \in Cids :
           cache'[c] # cache[c] =>
             \E r \in RequestIds :
               /\ reqs[r].pc = "json" /\ reqs[r].cid = c
               /\ reqs'[r].status = 200
               /\ reqs'[r].outcomes[Len(reqs'[r].outcomes)] = "ok"
               /\ reqs'[r].body \in Docs(c)
               /\ cache'[c] = [data |-> reqs'[r].body, timestamp |-> serverNow]
      /\ \A r \in RequestIds :
           ( /\ reqs[r].pc = "params" /\ reqs'[r].pc # "params"
             /\ reqs[r].cid # "" /\ reqs'[r].status # 500
             /\ cache[reqs[r].cid] = NoEntry
             /\ \E f \in RequestIds :
                  /\ reqs[f].pc = "done" /\ reqs[f].status = 502
                  /\ reqs[f].cid = reqs[r].cid )
           => /\ reqs'[r].pc = "fetch"
              /\ reqs'[r].contacted = << IPFS_GATEWAYS[1] >> ]_vars

\* one request ended with 502 after every gateway failed, nothing was cached for its
\* cid, and the next request for that cid is at the gateways again
C26_Witness ==
  \E f, r \in RequestIds :
    /\ reqs[f].pc = "done" /\ reqs[f].status = 502
    /\ Len(reqs[f].contacted) = Len(IPFS_GATEWAYS)
    /\ reqs[r].cid = reqs[f].cid /\ reqs[r].pc = "fetch"
    /\ cache[reqs[f].cid] = NoEntry

(* ---------------------------------------------------------------------- *)
(* The projected state of a bounty and the state read behind it           *)
(* ---------------------------------------------------------------------- *)
\* the position of a listed bounty's address in the addresses array
IndexOfAddress(a) == CHOOSE i \in DOMAIN addresses : addresses[i] = a

\* the state read of the bounty at address a returned OPEN
StateReadReturnedOpen(a) ==
  LET r == OwnResult(IndexOfAddress(a), 3) IN r.ok /\ r.result = OPEN

\* C27: a bounty from the projector carries state OPEN only if the on-chain state
\* read returned OPEN; a failed or pending state read never makes a bounty that
\* is not OPEN appear as OPEN.
C27_OpenOnlyWhenReadOpen ==
  \A j \in DOMAIN bounties :
    bounties[j].state = OPEN => StateReadReturnedOpen(bounties[j].address)

(* ---------------------------------------------------------------------- *)
(* useUserClaimedBounties (src/hooks/useClaims.ts), live mode             *)
(* ---------------------------------------------------------------------- *)
\* String.prototype.toLowerCase on the addresses in use
toLowerCase(str) ==
  CASE str = "0xAA" -> "0xaa"
    [] str = "0xB1" -> "0xb1"
    [] OTHER        -> str

\* the user in two spellings, and another account
AccountAddrs == {"0xAA", "0xaa", "0xcc"}

\* bounties.flatMap(bounty => Array.from({length: count}, (_, i) => getClaim(i)))
RECURSIVE flatMapContracts(_)
flatMapContracts(bs) ==
  IF bs = << >> THEN << >>
  ELSE [i \in 1..bs[1].claimsCount |-> [address |-> bs[1].address, index |-> i - 1]]
         \o flatMapContracts(Tail(bs))

\* a claim index that moves on by one per bounty
advance_perBounty(claimIndex, count) == claimIndex + 1

\* claimIndex++ once per claim of the bounty
advance(claimIndex, count) == claimIndex + count

\* claimsData[k]?.result, for positions counted from 0
ClaimResultAt(d, k) ==
  IF k + 1 \in DOMAIN d.results /\ d.results[k + 1].ok
  THEN [defined |-> TRUE, claimant |-> d.results[k + 1].result]
  ELSE [defined |-> FALSE, claimant |-> ""]

\* the inner loop of one bounty: some result of its claims names the user
BountyHasUserClaim(d, u, claimIndex, count) ==
  \E i \in 0..(count - 1) :
    /\ ClaimResultAt(d, claimIndex + i).defined
    /\ toLowerCase(ClaimResultAt(d, claimIndex + i).claimant) = toLowerCase(u)

\* the outer loop from the first of bs on, claimIndex being the running position
RECURSIVE ScanBounties(_, _, _, _)
ScanBounties(bs, d, u, claimIndex) ==
  IF bs = << >> THEN {}
  ELSE (IF BountyHasUserClaim(d, u, claimIndex, bs[1].claimsCount)
        THEN { toLowerCase(bs[1].address) }
        ELSE {})
       \cup ScanBounties(Tail(bs), d, u, advance(claimIndex, bs[1].claimsCount))

\* the set the hook builds on this render
BuildClaimedSet(bs, d, u) ==
  IF d.defined /\ u # "" THEN ScanBounties(bs, d, u, 0) ELSE {}

\* the batch's answer when the reads at the failed positions fail
ClaimsMulticall(contracts, failed) ==
  [defined |-> TRUE,
   results |->
     [k \in DOMAIN contracts |->
        IF k \in failed
        THEN [ok |-> FALSE, result |-> "", of |-> contracts[k]]
        ELSE [ok |-> TRUE,
              result |-> chainClaims[contracts[k].address][contracts[k].index + 1],
              of |-> contracts[k]]]]

\* useReadContracts settles (enabled: contracts.length > 0 && !!userAddress)
ClaimReadsSettled ==
  /\ ~claimsData.defined
  /\ Len(flatMapContracts(givenBounties)) > 0 /\ givenUser # ""
  /\ \E failed \in SUBSET (1..(MaxBounties * MaxClaims)) :
       /\ failed \subseteq DOMAIN flatMapContracts(givenBounties)
       /\ claimsData' = ClaimsMulticall(flatMapContracts(givenBounties), failed)
       /\ userClaimedBounties' = BuildClaimedSet(givenBounties, claimsData', givenUser)
  /\ UNCHANGED << exceptClaimed, givenBounties, givenUser, chainClaims >>

\* the batch is read again
ClaimReadsRefetched ==
  /\ claimsData.defined
  /\ claimsData' = NoClaimsData
  /\ userClaimedBounties' = BuildClaimedSet(givenBounties, claimsData', givenUser)
  /\ UNCHANGED << exceptClaimed, givenBounties, givenUser, chainClaims >>

\* the sequences of distinct listed addresses, each with the chain's claims count
ClaimedBountyLists(claims) ==
  { [i \in 1..Len(q) |-> [address |-> q[i], claimsCount |-> Len(claims[q[i]])]]
    : q \in UNION { { s \in [1..n -> ClaimedBountyAddrs] :
                        \A x, y \in 1..n : x # y => s[x] # s[y] }
                    : n \in 0..MaxBounties } }

InitClaimed ==
  /\ PagesIdle
  /\ ProxyIdle /\ UploadIdle /\ ReadsIdle /\ FeedIdle /\ BatchIdle /\ ListingIdle
  /\ IpfsIdle /\ CreateIdle /\ ClicksIdle
  /\ chainClaims \in [ClaimedBountyAddrs ->
                        UNION { [1..n -> AccountAddrs] : n \in 0..MaxClaims }]
  /\ givenBounties \in ClaimedBountyLists(chainClaims)
  /\ givenUser \in {"", "0xAA", "0xaa"}
  /\ claimsData = NoClaimsData
  /\ userClaimedBounties = {}
  /\ ActivityIdle

NextClaimed ==
  \/ ClaimReadsSettled
  \/ ClaimReadsRefetched

SpecClaimed == InitClaimed /\ [][NextClaimed]_vars

\* the addresses of the given bounties for which a read that succeeded names the user
BountiesClaimedByUser ==
  { toLowerCase(claimsData.results[k].of.address) :
      k \in { p \in DOMAIN claimsData.results :
                /\ claimsData.results[p].ok
                /\ toLowerCase(claimsData.results[p].result) = toLowerCase(givenUser) } }

\* C28: in live mode the hook returns exactly the lower-cased addresses of the given
\* bounties that have a claim i < claimsCount whose claimant is the user, compared
\* without case: each result of the flattened batch is attributed to its own bounty,
\* also when bounties have no claims or single claim reads fail.
C28_ClaimedSetIsExact ==
  claimsData.defined =>
    /\ userClaimedBounties = BountiesClaimedByUser
    /\ \A k \in DOMAIN claimsData.results :
         LET c == claimsData.results[k].of IN
           /\ \E j \in DOMAIN givenBounties :
                /\ givenBounties[j].address = c.address
                /\ c.index < givenBounties[j].claimsCount
           /\ claimsData.results[k].ok =>
                claimsData.results[k].result = chainClaims[c.address][c.index + 1]

\* a bounty without claims precedes one the user claimed under another spelling,
\* one of whose claim reads failed
C28_Witness ==
  /\ claimsData.defined
  /\ Len(givenBounties) = 2 /\ givenBounties[1].claimsCount = 0
  /\ givenBounties[2].claimsCount = 2
  /\ givenBounties[2].address = "0xB1"
  /\ \E k \in DOMAIN claimsData.results : ~claimsData.results[k].ok
  /\ givenUser = "0xaa"
  /\ \E k \in DOMAIN claimsData.results :
       claimsData.results[k].ok /\ claimsData.results[k].result = "0xAA"
  /\ userClaimedBounties = {"0xb1"}

(* ---------------------------------------------------------------------- *)
(* useActivityFeed: the items a run collects, sorts, cuts and commits     *)
(* ---------------------------------------------------------------------- *)
\* limit: number = 20
DefaultLimit == 20

Limits == (0..MaxLimit) \cup {DefaultLimit}
Stamps == 1..MaxStamp

\* the fixture's clock, and now - n half hours (hoursAgo, daysAgo)
mockNow == 1000
halfHoursAgo(n) == mockNow - n
MockItem(n, type, age) ==
  [id |-> n, type |-> type, bounty |-> 0, timestamp |-> halfHoursAgo(age)]

\* MOCK_ACTIVITIES: act-1 .. act-15
MOCK_ACTIVITIES ==
  << MockItem(1, "created", 1),          MockItem(2, "claimSubmitted", 2),
     MockItem(3, "joined", 3),           MockItem(4, "voteStarted", 4),
     MockItem(5, "voteCast", 5),         MockItem(6, "claimSubmitted", 6),
     MockItem(7, "paid", 8),             MockItem(8, "joined", 10),
     MockItem(9, "created", 12),         MockItem(10, "claimSubmitted", 14),
     MockItem(11, "voteCast", 16),       MockItem(12, "cancelled", 48),
     MockItem(13, "paid", 72),           MockItem(14, "joined", 96),
     MockItem(15, "claimSubmitted", 120) >>

\* Array.prototype.slice(0, n) for n >= 0
slice(s, n) == SubSeq(s, 1, IF n < Len(s) THEN n ELSE Len(s))

\* a comparator that sorts the oldest first
comparator_ascending(a, b) == a.timestamp - b.timestamp

\* (a, b) => b.timestamp - a.timestamp
comparator(a, b) == b.timestamp - a.timestamp

\* Array.prototype.sort, which is stable: x is put before the first element that
\* the comparator orders after it
RECURSIVE insertSorted(_, _)
insertSorted(s, x) ==
  IF s = << >> THEN << x >>
  ELSE IF comparator(Head(s), x) > 0 THEN << x >> \o s
  ELSE << Head(s) >> \o insertSorted(Tail(s), x)

RECURSIVE sortActivities(_)
sortActivities(s) ==
  IF s = << >> THEN << >>
  ELSE insertSorted(sortActivities(SubSeq(s, 1, Len(s) - 1)), s[Len(s)])

\* the list a run commits: allActivities.sort(...).slice(0, limit)
sortedAndCut(allActivities, limit) == slice(sortActivities(allActivities), limit)

\* the position of the try block a run is at, counted over bounties and kinds
SlotOf(q) == (q.i - 1) * Len(BOUNTY_EVENTS) + q.kind

\* the item pushed for a created log, and for a log of the bounty's current kind
CreatedItem(q, t) ==
  [id |-> q.i, type |-> "created", bounty |-> q.bountyAddresses[q.i], timestamp |-> t]
BountyItem(q, t) ==
  [id |-> 10 + SlotOf(q), type |-> BOUNTY_EVENTS[q.kind],
   bounty |-> q.bountyAddresses[q.i], timestamp |-> t]

\* the run leaves the try block by its end: sort, slice, setActivities
leaveSorted(q) == [q EXCEPT !.pc = "finished", !.how = "sorted"]

\* the run goes on after a try block of the bounty loop: the next kind, the next
\* bounty, or the sort
nextTryBlock(q) ==
  IF q.kind < Len(BOUNTY_EVENTS)
  THEN [q EXCEPT !.pc = "bountyLogs", !.kind = @ + 1]
  ELSE IF q.i < Len(q.bountyAddresses)
  THEN [q EXCEPT !.pc = "bountyLogs", !.i = @ + 1, !.kind = 1]
  ELSE leaveSorted(q)

\* a catch that gives up the loops after a failed read
afterCatch_giveUp(q) == leaveSorted(q)

\* catch { }: the failure is ignored and the run goes on
afterCatch(q) == nextTryBlock(q)

\* the run moves to q; when it has left by its end the list is committed
ActivityStep(q) ==
  /\ fetchRun' = q
  /\ hook' = IF q.pc = "finished" /\ q.how = "sorted"
             THEN [hook EXCEPT !.activities = sortedAndCut(q.allActivities, hook.limit),
                               !.isLoading = FALSE]
             ELSE hook
  /\ UNCHANGED << exceptActivity, runCount >>

\* the effect runs, on mount or when publicClient changed: the run before is
\* cancelled; outside demo mode fetchActivities runs up to its first await
ActivityEffect ==
  /\ runCount < MaxRuns
  /\ runCount' = runCount + 1
  /\ IF DEMO_MODE
     THEN UNCHANGED << hook, fetchRun >>
     ELSE /\ hook' = [hook EXCEPT !.isLoading = TRUE, !.error = FALSE]
          /\ fetchRun' = [NoFetch EXCEPT !.pc = "getBlockNumber"]
  /\ UNCHANGED exceptActivity

\* getBlockNumber resolved: the factory's created logs are asked for
ActivityBlockNumber ==
  /\ fetchRun.pc = "getBlockNumber"
  /\ ActivityStep([fetchRun EXCEPT !.pc = "createdLogs"])

\* the created logs the factory may report: none, one bounty, two bounties
CreatedLogs == { << >>, << 1 >>, << 1, 2 >> }

\* getLogs resolved with the created logs
ActivityCreatedLogs(logs) ==
  /\ fetchRun.pc = "createdLogs"
  /\ ActivityStep(IF logs = << >>
                  THEN leaveSorted(fetchRun)
                  ELSE [fetchRun EXCEPT !.pc = "createdBlock", !.i = 1,
                                        !.bountyAddresses = logs])

\* getBlock resolved for the i-th created log: its item is pushed
ActivityCreatedBlock(t) ==
  /\ fetchRun.pc = "createdBlock"
  /\ LET q == [fetchRun EXCEPT !.allActivities = Append(@, CreatedItem(fetchRun, t))] IN
       ActivityStep(IF q.i < Len(q.bountyAddresses)
                    THEN [q EXCEPT !.i = @ + 1]
                    ELSE [q EXCEPT !.pc = "bountyLogs", !.i = 1, !.kind = 1])

\* getBlockNumber, the factory's getLogs or a created log's getBlock rejected:
\* the outer catch and the finally block
ActivityOuterRejected ==
  /\ fetchRun.pc \in {"getBlockNumber", "createdLogs", "createdBlock"}
  /\ fetchRun' = [fetchRun EXCEPT !.pc = "finished", !.how = "threw"]
  /\ hook' = [hook EXCEPT !.error = TRUE, !.isLoading = FALSE]
  /\ UNCHANGED << exceptActivity, runCount >>

\* the bounty events collected so far
BountyEventsIn(s) == { k \in DOMAIN s : s[k].type # "created" }

\* the bounty's getLogs resolved with n logs of the current kind
ActivityBountyLogs(n) ==
  /\ fetchRun.pc = "bountyLogs"
  /\ n = 1 => Cardinality(BountyEventsIn(fetchRun.allActivities)) < MaxEvents
  /\ ActivityStep(IF n = 0 THEN nextTryBlock(fetchRun)
                  ELSE [fetchRun EXCEPT !.pc = "bountyBlock"])

\* getBlock resolved for the bounty's log: its item is pushed
ActivityBountyBlock(t) ==
  /\ fetchRun.pc = "bountyBlock"
  /\ ActivityStep(nextTryBlock([fetchRun EXCEPT
                     !.allActivities = Append(@, BountyItem(fetchRun, t))]))

\* the bounty's getLogs or getBlock rejected: the try block's own catch
ActivityBountyRejected ==
  /\ fetchRun.pc \in {"bountyLogs", "bountyBlock"}
  /\ ActivityStep(afterCatch([fetchRun EXCEPT
                     !.swallowed = IF @ = 0 THEN SlotOf(fetchRun) ELSE @]))

InitActivity ==
  /\ DEMO_MODE \in BOOLEAN
  /\ page = "none" /\ bountyNum = 0 /\ claimId = 0
  /\ chain = NoContract
  /\ InitReads
  /\ InitClient
  /\ ProxyIdle /\ UploadIdle /\ ReadsIdle /\ FeedIdle /\ BatchIdle /\ ListingIdle
  /\ IpfsIdle /\ CreateIdle /\ ClicksIdle /\ ClaimedIdle
  /\ \E l \in Limits :
       hook = [limit |-> l,
               activities |-> IF DEMO_MODE THEN slice(MOCK_ACTIVITIES, l) ELSE << >>,
               isLoading |-> ~DEMO_MODE,
               error |-> FALSE]
  /\ fetchRun = NoFetch
  /\ runCount = 0

NextActivity ==
  \/ ActivityEffect
  \/ ActivityBlockNumber
  \/ \E logs \in CreatedLogs : ActivityCreatedLogs(logs)
  \/ \E t \in Stamps : ActivityCreatedBlock(t)
  \/ ActivityOuterRejected
  \/ \E n \in 0..1 : ActivityBountyLogs(n)
  \/ \E t \in Stamps : ActivityBountyBlock(t)
  \/ ActivityBountyRejected

SpecActivity == InitActivity /\ [][NextActivity]_vars

\* the run has committed its list
Committed == fetchRun.pc = "finished" /\ fetchRun.how = "sorted"

\* C29: a failure while one event type of one bounty is fetched is swallowed: no
\* error is set, nothing collected is lost, the next event type or bounty is fetched,
\* and the list committed has passed every try block of every bounty; a failure of
\* getBlockNumber, of the created log query or of a created log's block lookup sets
\* error, sets isLoading to false and leaves the committed activities unchanged.
C29_InnerFailureSwallowedOuterReported ==
  /\ [][ ActivityBountyRejected =>
           /\ hook'.error = hook.error
           /\ fetchRun'.allActivities = fetchRun.allActivities
           /\ IF SlotOf(fetchRun) < Len(fetchRun.bountyAddresses) * Len(BOUNTY_EVENTS)
              THEN /\ fetchRun'.pc = "bountyLogs"
                   /\ SlotOf(fetchRun') = SlotOf(fetchRun) + 1
                   /\ hook' = hook
              ELSE /\ fetchRun'.pc = "finished" /\ fetchRun'.how = "sorted"
                   /\ hook'.activities
                        = sortedAndCut(fetchRun.allActivities, hook.limit) ]_vars
  /\ [][ ActivityOuterRejected =>
           /\ hook'.error /\ ~hook'.isLoading
           /\ hook'.activities = hook.activities ]_vars
  /\ []( (Committed /\ fetchRun.bountyAddresses # << >>) =>
           /\ SlotOf(fetchRun) = Len(fetchRun.bountyAddresses) * Len(BOUNTY_EVENTS)
           /\ ~hook.error /\ ~hook.isLoading )

\* a run that swallowed a failure has committed an event fetched after it
C29_Witness ==
  /\ Committed /\ fetchRun.swallowed # 0
  /\ ~hook.error
  /\ \E k \in DOMAIN hook.activities :
       /\ hook.activities[k].type # "created"
       /\ hook.activities[k].id > 10 + fetchRun.swallowed

\* s is ordered by timestamp, newest first
NewestFirst(s) ==
  \A x, y \in DOMAIN s : x < y => s[x].timestamp >= s[y].timestamp

\* the items of a sequence
ItemsOf(s) == { s[k] : k \in DOMAIN s }

\* C30: the list the hook holds has at most limit items and is ordered by timestamp
\* non-increasing; a committed list consists of the limit most recent of the events
\* the fetch collected; the fixture list of demo mode keeps the same order and bound.
C30_CommittedListNewestFirstWithinLimit ==
  /\ Len(hook.activities) <= hook.limit
  /\ NewestFirst(hook.activities)
  /\ DEMO_MODE => hook.activities = slice(MOCK_ACTIVITIES, hook.limit)
  /\ Committed =>
       /\ ItemsOf(hook.activities) \subseteq ItemsOf(fetchRun.allActivities)
       /\ Cardinality(ItemsOf(hook.activities)) = Len(hook.activities)
       /\ Len(hook.activities)
            = (IF hook.limit < Len(fetchRun.allActivities)
               THEN hook.limit ELSE Len(fetchRun.allActivities))
       /\ \A kept \in ItemsOf(hook.activities) :
            \A dropped \in ItemsOf(fetchRun.allActivities) \ ItemsOf(hook.activities) :
              kept.timestamp >= dropped.timestamp

\* a run collected more events than the limit, an older one before a newer one, and
\* committed the newest
C30_Witness ==
  /\ Committed
  /\ hook.limit = 2 /\ Len(fetchRun.allActivities) > 2
  /\ fetchRun.allActivities[1].timestamp < fetchRun.allActivities[3].timestamp
  /\ hook.activities[1] = fetchRun.allActivities[3]

====
